---- MODULE Spec2Model ----
(***************************************************************************)
(* A model of the SPF demo servers: the response builder, the JSON         *)
(* encoder, the multipart streaming generator, the redirect encoder, the   *)
(* content negotiator (src/server/demo/app.py and the legacy               *)
(* src/demo/app.py) and the string hash (src/server/python/spf.py and the  *)
(* legacy Hashcode).                                                       *)
(*                                                                         *)
(* Python values are modelled as follows.                                  *)
(*   str            a TLA+ string                                          *)
(*   None / a value None, Some(v)                                          *)
(*   dict           a function whose domain is a set of strings            *)
(*   int (bignum)   a pair <<hi, lo>> of base-2^16 digits, hi unbounded    *)
(*   a generator    a program counter pc, one action per resumption        *)
(***************************************************************************)
EXTENDS Integers, Sequences, FiniteSets, TLC

VARIABLES
    op,         \* the function or method that was called
    env,        \* web.ctx.env: CGI variable name -> value
    params,     \* the request's query/form parameters: name -> value
    debug,      \* web.config.debug
    content,    \* argument: the rendered template
    fragments,  \* argument: None or a dict of element id -> attribute name
    truncate,   \* argument of chunked_render_spf
    url,        \* argument of redirect
    string,     \* argument of hashcode / Hashcode: None or a sequence of code points
    pc,         \* position of the call (the generator's suspension point)
    headers,    \* response headers set through web.header
    resp,       \* local of chunked_render_spf: the response being split
    early,      \* local of chunked_render_spf: the first part
    out,        \* chunks yielded so far, in order
    sleepAt,    \* Len(out) at each time.sleep of the generator
    ret,        \* None, or Some(the value returned)
    exc,        \* "none", or the exception that left the call
    idx,        \* hash loop: number of characters consumed
    result,     \* hash loop: the local named result, as <<hi, lo>>
    pulls,      \* number of times the consumer has asked the generator for a chunk
    self,       \* the attributes of the _ChunkedSample instance
    res,        \* local of the sample handlers: the response string
    chunk_len,  \* local of _iter_chunks: length
    pos,        \* local of _iter_chunks: idx
    reqs,       \* concurrent handling: request -> its handler's position and locals
    inst,       \* concurrent handling: servlet instance -> its attributes
    number      \* argument of _iter_chunks: the number of chunks

vars == <<op, env, params, debug, content, fragments, truncate, url, string,
          pc, headers, resp, early, out, sleepAt, ret, exc, idx, result,
          pulls, self, res, chunk_len, pos, reqs, inst, number>>

(***************************************************************************)
(* Python values                                                           *)
(***************************************************************************)
None == [isNone |-> TRUE]

Some(v) == [isNone |-> FALSE, v |-> v]

\* bool(x) of an optional string: None and '' are false.
Truthy(x) == (~x.isNone) /\ x.v # ""

EmptyDict == [k \in {} |-> ""]

\* d[k] = v
DictSet(d, k, v) == [x \in (DOMAIN d) \cup {k} |-> IF x = k THEN v ELSE d[x]]

\* d.pop(k): the dict that is left
DictPop(d, k) == [x \in (DOMAIN d) \ {k} |-> d[x]]

\* d.get(k): None when the key is missing
DictGet(d, k) == IF k \in DOMAIN d THEN Some(d[k]) ELSE None

(***************************************************************************)
(* spf.py: the protocol constants                                          *)
(***************************************************************************)
ResponseKey ==
    [TITLE |-> "title", URL |-> "url", HEAD |-> "head", FOOT |-> "foot",
     ATTR |-> "attr", BODY |-> "body", NAME |-> "name", REDIRECT |-> "redirect"]

MultipartToken == [BEGIN |-> "[\r\n", DELIMITER |-> ",\r\n", END |-> "]\r\n"]

UrlIdentifier == [PARAM |-> "spf"]

HeaderOut == [RESPONSE_TYPE |-> "X-SPF-Response-Type"]

ResponseType == [MULTIPART |-> "multipart"]

(***************************************************************************)
(* The rendered template handed to the servlet.  A template exposes some   *)
(* of its attributes (None: the attribute does not exist) and a string     *)
(* conversion.                                                             *)
(***************************************************************************)
ContentAttrs ==
    {"stylesheet", "javascript", "title", "name", "attributes", "home_ajax_out"}

HasAttr(c, n) == n \in DOMAIN c.attrs /\ ~c.attrs[n].isNone

\* getattr(content, name, default)
GetAttrDefault(c, n, default) == IF HasAttr(c, n) THEN c.attrs[n].v ELSE default

AttrJson == "{\"nav\":{\"class\":\"on\"}}"

AttrParsed == [nav |-> [class |-> "on"]]

\* A parser that takes a document that is no JSON for the empty object.
JsonLoads_lenient(s) ==
    CASE s = AttrJson -> [ok |-> TRUE, v |-> AttrParsed]
      [] OTHER -> [ok |-> TRUE, v |-> EmptyDict]

\* json.loads on the attribute documents of the model: the parsed value, or
\* ValueError for a document that is no JSON.
JsonLoads(s) ==
    CASE s = "{}" -> [ok |-> TRUE, v |-> EmptyDict]
      [] s = AttrJson -> [ok |-> TRUE, v |-> AttrParsed]
      [] OTHER -> [ok |-> FALSE, v |-> EmptyDict]

(***************************************************************************)
(* Servlet.create_spf_response                                             *)
(***************************************************************************)
\* `if fragments:` is false for None and for an empty dict.
FragmentsGiven(f) == (~f.isNone) /\ DOMAIN f.v # {}

\* The body built by the loop over fragments: one entry per fragment id, read
\* off the template without a default.
FragmentBody(c, f) == [id \in DOMAIN f |-> c.attrs[f[id]].v]

\* getattr(content, fragments[frag_id]) with no default raises AttributeError
\* for an attribute the template does not have.
FragmentsReadable(c, f) == \A id \in DOMAIN f : HasAttr(c, f[id])

\* A variant that stores every field, empty or not.
create_spf_response_keep_empty(c, f) ==
    LET r1 == DictSet(EmptyDict, ResponseKey.HEAD, GetAttrDefault(c, "stylesheet", ""))
        r2 == DictSet(r1, ResponseKey.FOOT, GetAttrDefault(c, "javascript", ""))
        r3 == DictSet(r2, ResponseKey.TITLE, GetAttrDefault(c, "title", ""))
        r4 == DictSet(r3, ResponseKey.NAME, GetAttrDefault(c, "name", ""))
        attr == JsonLoads(GetAttrDefault(c, "attributes", "{}"))
        r5 == DictSet(r4, ResponseKey.ATTR, attr.v)
    IN  IF ~attr.ok THEN [exc |-> "ValueError", value |-> EmptyDict]
        ELSE IF FragmentsGiven(f)
        THEN IF FragmentsReadable(c, f.v)
             THEN [exc |-> "none",
                   value |-> DictSet(r5, ResponseKey.BODY, FragmentBody(c, f.v))]
             ELSE [exc |-> "AttributeError", value |-> EmptyDict]
        ELSE [exc |-> "none",
              value |-> DictSet(r5, ResponseKey.BODY, [content |-> c.str])]

\* The value returned, or the exception raised (value is then unused).
\* str() of an attribute is the attribute's text.
create_spf_response(c, f) ==
    LET head == GetAttrDefault(c, "stylesheet", "")
        r1 == IF head # "" THEN DictSet(EmptyDict, ResponseKey.HEAD, head) ELSE EmptyDict
        foot == GetAttrDefault(c, "javascript", "")
        r2 == IF foot # "" THEN DictSet(r1, ResponseKey.FOOT, foot) ELSE r1
        title == GetAttrDefault(c, "title", "")
        r3 == IF title # "" THEN DictSet(r2, ResponseKey.TITLE, title) ELSE r2
        name == GetAttrDefault(c, "name", "")
        r4 == IF name # "" THEN DictSet(r3, ResponseKey.NAME, name) ELSE r3
        attr == JsonLoads(GetAttrDefault(c, "attributes", "{}"))
        r5 == IF DOMAIN attr.v # {} THEN DictSet(r4, ResponseKey.ATTR, attr.v) ELSE r4
        content_str == c.str
    IN  IF ~attr.ok THEN [exc |-> "ValueError", value |-> EmptyDict]
        ELSE IF FragmentsGiven(f)
        THEN IF FragmentsReadable(c, f.v)
             THEN [exc |-> "none",
                   value |-> DictSet(r5, ResponseKey.BODY, FragmentBody(c, f.v))]
             ELSE [exc |-> "AttributeError", value |-> EmptyDict]
        ELSE IF content_str # ""
        THEN [exc |-> "none",
              value |-> DictSet(r5, ResponseKey.BODY, [content |-> content_str])]
        ELSE [exc |-> "none", value |-> r5]

(***************************************************************************)
(* Servlet.encode_json: json.dumps of a response object.  A response holds *)
(* strings (head, foot, title, name, redirect), a dict of strings (body)   *)
(* and a dict of dicts of strings (attr).                                  *)
(***************************************************************************)
\* The string escapes of json.dumps, on the strings of the model: only the
\* fragment markup holds a character that is escaped (the double quote).
JsonEscape(s) ==
    CASE s = "<b class=\"x\">ok</b>" -> "<b class=\\\"x\\\">ok</b>"
      [] OTHER -> s

JsonString(s) == "\"" \o JsonEscape(s) \o "\""

\* sort_keys=True: the keys of the model in lexicographic order.
SortedKeys ==
    <<"attr", "body", "class", "content", "foot", "head", "home_ajax_out",
      "name", "nav", "out", "redirect", "title", "title_box", "url">>

\* Without sort_keys the order is the dict's iteration order, which is the
\* interpreter's choice; the model takes the order of insertion.
DictOrder ==
    <<"head", "foot", "title", "name", "attr", "body", "redirect", "url",
      "content", "home_ajax_out", "out", "title_box", "nav", "class">>

KeysIn(d, order) == SelectSeq(order, LAMBDA k : k \in DOMAIN d)

RECURSIVE Join(_, _)
Join(items, sep) ==
    IF Len(items) = 0 THEN ""
    ELSE IF Len(items) = 1 THEN items[1]
    ELSE items[1] \o sep \o Join(Tail(items), sep)

RECURSIVE Indent(_)
Indent(level) == IF level = 0 THEN "" ELSE "    " \o Indent(level - 1)

\* One JSON object from its encoded items: compact with separators
\* (',', ':'), or indent=4 with the default separators (', ', ': ').
DumpObject(items, pretty, level) ==
    IF Len(items) = 0 THEN "{}"
    ELSE IF pretty
    THEN "{" \o "\n" \o Indent(level + 1)
         \o Join(items, ", " \o "\n" \o Indent(level + 1))
         \o "\n" \o Indent(level) \o "}"
    ELSE "{" \o Join(items, ",") \o "}"

KeySep(pretty) == IF pretty THEN ": " ELSE ":"

DumpStrDict(d, pretty, level) ==
    LET ks == KeysIn(d, IF pretty THEN SortedKeys ELSE DictOrder)
    IN  DumpObject([i \in 1..Len(ks) |->
                       JsonString(ks[i]) \o KeySep(pretty) \o JsonString(d[ks[i]])],
                   pretty, level)

DumpDictDict(d, pretty, level) ==
    LET ks == KeysIn(d, IF pretty THEN SortedKeys ELSE DictOrder)
    IN  DumpObject([i \in 1..Len(ks) |->
                       JsonString(ks[i]) \o KeySep(pretty)
                       \o DumpStrDict(d[ks[i]], pretty, level + 1)],
                   pretty, level)

DumpValue(k, v, pretty, level) ==
    CASE k = ResponseKey.BODY -> DumpStrDict(v, pretty, level)
      [] k = ResponseKey.ATTR -> DumpDictDict(v, pretty, level)
      [] OTHER -> JsonString(v)

\* An encoder that ends every document with a CRLF.
encode_json_crlf(response, dbg) ==
    LET ks == KeysIn(response, IF dbg THEN SortedKeys ELSE DictOrder)
    IN  DumpObject([i \in 1..Len(ks) |->
                       JsonString(ks[i]) \o KeySep(dbg)
                       \o DumpValue(ks[i], response[ks[i]], dbg, 1)],
                   dbg, 0) \o "\r\n"

\* json.dumps(response, sort_keys=True, indent=4) when web.config.debug,
\* json.dumps(response, separators=(',', ':')) otherwise.
encode_json(response, dbg) ==
    LET ks == KeysIn(response, IF dbg THEN SortedKeys ELSE DictOrder)
    IN  DumpObject([i \in 1..Len(ks) |->
                       JsonString(ks[i]) \o KeySep(dbg)
                       \o DumpValue(ks[i], response[ks[i]], dbg, 1)],
                   dbg, 0)

(***************************************************************************)
(* The content negotiators                                                 *)
(***************************************************************************)
\* web.input(spf=None)[name]: the parameter, None when the request has none.
WebInput(p, name) == DictGet(p, name)

\* Servlet.is_spf_request of the server demo.
is_spf_request(e, p) == Truthy(WebInput(p, UrlIdentifier.PARAM))

\* Servlet.IsSPFRequest of the legacy demo.
IsSPFRequest(e, p) ==
    LET has_spf_header == Truthy(DictGet(e, "HTTP_X_SPF_REQUEST"))
        has_spf_param == Truthy(WebInput(p, "spf"))
    IN  has_spf_header \/ has_spf_param

(***************************************************************************)
(* Servlet.chunked_render_spf: the split of the response                   *)
(***************************************************************************)
\* A split that also moves the name out of the late part.
SplitLate_pop_name(r) ==
    DictPop(DictPop(DictPop(r, ResponseKey.HEAD), ResponseKey.TITLE), ResponseKey.NAME)

\* resp after the two pops (a key that is missing is not popped).
SplitLate(r) ==
    LET a == IF ResponseKey.HEAD \in DOMAIN r THEN DictPop(r, ResponseKey.HEAD) ELSE r
    IN  IF ResponseKey.TITLE \in DOMAIN a THEN DictPop(a, ResponseKey.TITLE) ELSE a

\* early: head and title moved, name copied.
SplitEarly(r) ==
    LET e1 == IF ResponseKey.HEAD \in DOMAIN r
              THEN DictSet(EmptyDict, ResponseKey.HEAD, r[ResponseKey.HEAD])
              ELSE EmptyDict
        e2 == IF ResponseKey.TITLE \in DOMAIN r
              THEN DictSet(e1, ResponseKey.TITLE, r[ResponseKey.TITLE])
              ELSE e1
    IN  IF ResponseKey.NAME \in DOMAIN r
        THEN DictSet(e2, ResponseKey.NAME, r[ResponseKey.NAME])
        ELSE e2

(***************************************************************************)
(* Arbitrary-precision integers of the hash, as <<hi, lo>> = hi*Base + lo  *)
(***************************************************************************)
Base == 65536

IntNorm(hi, lo) == <<hi + (lo \div Base), lo % Base>>

\* m * r + c, for a small m and c
IntMulAdd(m, r, c) == IntNorm(m * r[1], m * r[2] + c)

\* r % max_value, max_value = 2**32 = Base * Base
ModMaxValue(r) == <<r[1] % Base, r[2]>>

\* The loop body without the reduction.
hashcode_step_no_mod(r, c) == IntMulAdd(31, r, c)

\* A loop body that adds the character before it multiplies.
hashcode_step_add_first(r, c) == ModMaxValue(IntMulAdd(31, IntNorm(r[1], r[2] + c), 0))

\* spf.hashcode, one character: result = (31 * result) + ord(char);
\* result %= max_value
hashcode_step(r, c) == ModMaxValue(IntMulAdd(31, r, c))

\* A legacy hash with the multiplier 33.
Hashcode_step_33(r, c) == ModMaxValue(IntMulAdd(33, r, c))

\* The legacy Hashcode, one character.
Hashcode_step(r, c) == ModMaxValue(IntMulAdd(31, r, c))

(***************************************************************************)
(* _ChunkedSample: the request parameters of the sample handlers.          *)
(* A parameter value is the sequence of its characters; a float is         *)
(* [nan, ms] with ms its value in thousandths.                             *)
(***************************************************************************)
DigitChar == <<"0", "1", "2", "3", "4", "5", "6", "7", "8", "9">>

IsDigit(c) == \E i \in 1..10 : DigitChar[i] = c

DigitVal(c) == (CHOOSE i \in 1..10 : DigitChar[i] = c) - 1

RECURSIVE DigitsVal(_)
DigitsVal(ds) ==
    IF ds = <<>> THEN 0
    ELSE 10 * DigitsVal(SubSeq(ds, 1, Len(ds) - 1)) + DigitVal(ds[Len(ds)])

AllDigits(ds) == \A i \in 1..Len(ds) : IsDigit(ds[i])

Signed(s) == s # <<>> /\ s[1] \in {"-", "+"}

Unsigned(s) == IF Signed(s) THEN Tail(s) ELSE s

Sign(s) == IF s # <<>> /\ s[1] = "-" THEN -1 ELSE 1

\* int(s) for a string of sign, digit and other characters: the value, or
\* ValueError (ok false).
ParseInt(s) ==
    LET body == Unsigned(s)
    IN  IF body # <<>> /\ AllDigits(body)
        THEN [ok |-> TRUE, v |-> Sign(s) * DigitsVal(body)]
        ELSE [ok |-> FALSE, v |-> 0]

\* int(x) of a Python int or of a string.
IntOf(x) == IF x.t = "int" THEN [ok |-> TRUE, v |-> x.v] ELSE ParseInt(x.v)

Seconds(n) == [nan |-> FALSE, ms |-> 1000 * n]

PointAt(s) == IF \E i \in 1..Len(s) : s[i] = "."
              THEN CHOOSE i \in 1..Len(s) : s[i] = "." /\ \A j \in 1..(i - 1) : s[j] # "."
              ELSE Len(s) + 1

\* The first three digits after the point, in thousandths.
FracMs(ds) == DigitsVal(SubSeq(ds \o <<"0", "0", "0">>, 1, 3))

\* float(s) for a string of sign, digit, point and other characters: the
\* value (nan included), or ValueError (ok false).
ParseFloat(s) ==
    LET body == Unsigned(s)
        whole == SubSeq(body, 1, PointAt(body) - 1)
        frac == SubSeq(body, PointAt(body) + 1, Len(body))
    IN  IF body = <<"n", "a", "n">>
        THEN [ok |-> TRUE, v |-> [nan |-> TRUE, ms |-> 0]]
        ELSE IF AllDigits(whole) /\ AllDigits(frac) /\ whole \o frac # <<>>
        THEN [ok |-> TRUE,
              v |-> [nan |-> FALSE,
                     ms |-> Sign(s) * (1000 * DigitsVal(whole) + FracMs(frac))]]
        ELSE [ok |-> FALSE, v |-> Seconds(0)]

\* web.input(chunks=1, delay='', no_final_delimiter='',
\*           no_multipart_header='', add_parse_error='')
SampleInput(p) ==
    [chunks |-> IF "chunks" \in DOMAIN p THEN [t |-> "str", v |-> p.chunks]
                ELSE [t |-> "int", v |-> 1],
     delay |-> IF "delay" \in DOMAIN p THEN p.delay ELSE <<>>,
     no_final_delimiter |->
        IF "no_final_delimiter" \in DOMAIN p THEN p.no_final_delimiter ELSE <<>>,
     no_multipart_header |->
        IF "no_multipart_header" \in DOMAIN p THEN p.no_multipart_header ELSE <<>>,
     add_parse_error |->
        IF "add_parse_error" \in DOMAIN p THEN p.add_parse_error ELSE <<>>]

\* bool(s) of a string
Bool(s) == s # <<>>

\* A _handle_input that takes over whatever float() returns for any string.
handle_input_keep_delay(p) ==
    LET req == SampleInput(p)
    IN  [num_chunks |-> IF IntOf(req.chunks).ok THEN IntOf(req.chunks).v ELSE 1,
         delay_time |-> ParseFloat(req.delay).v,
         no_final_delimiter |-> Bool(req.no_final_delimiter),
         no_multipart_header |-> Bool(req.no_multipart_header),
         add_parse_error |-> Bool(req.add_parse_error)]

\* _ChunkedSample._handle_input: the attributes of the instance after it.
handle_input(p) ==
    LET req == SampleInput(p)
    IN  [num_chunks |-> IF IntOf(req.chunks).ok THEN IntOf(req.chunks).v ELSE 1,
         delay_time |-> IF ParseFloat(req.delay).ok THEN ParseFloat(req.delay).v
                        ELSE Seconds(1),
         no_final_delimiter |-> Bool(req.no_final_delimiter),
         no_multipart_header |-> Bool(req.no_multipart_header),
         add_parse_error |-> Bool(req.add_parse_error)]

\* time.sleep(t) raises for a negative value and for nan.
SleepRaises(t) == t.nan \/ t.ms < 0

(***************************************************************************)
(* _ChunkedSample._iter_chunks                                             *)
(***************************************************************************)
\* length = int(math.ceil(len(string) / float(number)))
ChunkLength(len, n) ==
    IF n = 0 THEN [exc |-> "ZeroDivisionError", v |-> 0]
    ELSE IF n > 0 THEN [exc |-> "none", v |-> (len + n - 1) \div n]
    ELSE [exc |-> "none", v |-> 0 - (len \div (0 - n))]

\* range(0, len(string), length): a step of zero is a ValueError, and idx
\* is in the range when it has not reached len(string) in the direction of
\* the step.
RangeRaises(length) == length = 0

InRange(i, len, length) == IF length > 0 THEN i < len ELSE i > len

\* string[idx:idx+length] for idx within the string and a positive length
Slice(s, i, length) ==
    SubSeq(s, i + 1, IF i + length < Len(s) THEN i + length ELSE Len(s))

RECURSIVE Concat(_)
Concat(cs) ==
    IF cs = <<>> THEN ""
    ELSE IF Len(cs) = 1 THEN cs[1]
    ELSE Concat(SubSeq(cs, 1, Len(cs) \div 2))
         \o Concat(SubSeq(cs, (Len(cs) \div 2) + 1, Len(cs)))

(***************************************************************************)
(* The sample responses, as sequences of characters                        *)
(***************************************************************************)
Alphabet ==
    <<"a", "b", "c", "d", "e", "f", "g", "h", "i", "j", "k", "l", "m",
      "n", "o", "p", "q", "r", "s", "t", "u", "v", "w", "x", "y", "z">>

\* ord('a')
OrdA == 97

\* chr(l) for a letter
Chr(l) == Alphabet[l - OrdA + 1]

\* alpha = range(ord('a'), ord('z') + 1)
Alpha == [i \in 1..26 |-> OrdA + i - 1]

RECURSIVE Digits(_)
Digits(n) == IF n < 10 THEN <<DigitChar[n + 1]>>
             ELSE Digits(n \div 10) \o <<DigitChar[(n % 10) + 1]>>

RECURSIVE JoinChars(_, _)
JoinChars(items, sep) ==
    IF Len(items) = 0 THEN <<>>
    ELSE IF Len(items) = 1 THEN items[1]
    ELSE items[1] \o sep \o JoinChars(Tail(items), sep)

FourSpaces == <<" ", " ", " ", " ">>

\* encode_json of a dict from letters to their codes, given as the sequence
\* of the codes: compact, or sorted with indent=4 when web.config.debug.
EncodeGroup(group, dbg) ==
    LET item(l) == <<"\"", Chr(l), "\"", ":">> \o (IF dbg THEN <<" ">> ELSE <<>>)
                   \o Digits(l)
        items == [i \in 1..Len(group) |-> item(group[i])]
    IN  IF Len(group) = 0 THEN <<"{", "}">>
        ELSE IF dbg
        THEN <<"{", "\n">> \o FourSpaces
             \o JoinChars(items, <<",", " ", "\n">> \o FourSpaces)
             \o <<"\n", "}">>
        ELSE <<"{">> \o JoinChars(items, <<",">>) \o <<"}">>

TokenChars ==
    [BEGIN |-> <<"[", "\r", "\n">>, DELIMITER |-> <<",", "\r", "\n">>,
     END |-> <<"]", "\r", "\n">>]

ParseErrorChars ==
    <<"_", "_", "p", "a", "r", "s", "e", "_", "e", "r", "r", "o", "r", "_", "_">>

Group1 == SelectSeq(Alpha, LAMBDA l : l < OrdA + 8)

Group2 == SelectSeq(Alpha, LAMBDA l : l >= OrdA + 8 /\ l < OrdA + 16)

Group3 == SelectSeq(Alpha, LAMBDA l : l >= OrdA + 16)

\* A response whose parse error marker comes before the first part.
MultipartResponse_marker_first(s, dbg) ==
    TokenChars.BEGIN
    \o (IF s.add_parse_error THEN ParseErrorChars ELSE <<>>)
    \o EncodeGroup(Group1, dbg) \o TokenChars.DELIMITER
    \o EncodeGroup(Group2, dbg) \o TokenChars.DELIMITER
    \o EncodeGroup(Group3, dbg) \o TokenChars.DELIMITER
    \o <<"n", "u", "l", "l">>
    \o (IF s.no_final_delimiter THEN <<"]">> ELSE TokenChars.END)

\* ChunkedSampleMultipart.GET: the response string
MultipartResponse(s, dbg) ==
    TokenChars.BEGIN
    \o EncodeGroup(Group1, dbg) \o TokenChars.DELIMITER
    \o (IF s.add_parse_error THEN ParseErrorChars ELSE <<>>)
    \o EncodeGroup(Group2, dbg) \o TokenChars.DELIMITER
    \o EncodeGroup(Group3, dbg) \o TokenChars.DELIMITER
    \o <<"n", "u", "l", "l">>
    \o (IF s.no_final_delimiter THEN <<"]">> ELSE TokenChars.END)

\* ChunkedSampleSingle.GET: the response string
SingleResponse(s, dbg) ==
    EncodeGroup(Alpha, dbg)
    \o (IF s.add_parse_error THEN ParseErrorChars ELSE <<>>)

SampleResponse(o, s, dbg) ==
    IF o = "ChunkedSampleMultipart" THEN MultipartResponse(s, dbg)
    ELSE SingleResponse(s, dbg)

(***************************************************************************)
(* spf.Header.cgi_env_var and the referer                                  *)
(***************************************************************************)
UpperAlphabet ==
    <<"A", "B", "C", "D", "E", "F", "G", "H", "I", "J", "K", "L", "M",
      "N", "O", "P", "Q", "R", "S", "T", "U", "V", "W", "X", "Y", "Z">>

\* str.upper(), one character
Upper(c) ==
    IF \E i \in 1..26 : Alphabet[i] = c
    THEN UpperAlphabet[CHOOSE i \in 1..26 : Alphabet[i] = c]
    ELSE c

\* str.replace('-', '_'), one character
ReplaceDash(c) == IF c = "-" THEN "_" ELSE c

\* HeaderIn.REFERER, the characters of 'X-SPF-Referer'
HeaderIn ==
    [REFERER |-> <<"X", "-", "S", "P", "F", "-", "R", "e", "f", "e", "r", "e", "r">>]

\* A formatting that keeps the dashes.
cgi_env_var_keep_dashes(h) ==
    Concat(<<"H", "T", "T", "P", "_">> \o [i \in 1..Len(h) |-> Upper(h[i])])

\* Header.cgi_env_var: 'HTTP_' + self.replace('-', '_').upper()
cgi_env_var(h) ==
    Concat(<<"H", "T", "T", "P", "_">>
           \o [i \in 1..Len(h) |-> Upper(ReplaceDash(h[i]))])

\* Servlet.get_referer of the server demo
get_referer(e) ==
    LET referer == DictGet(e, cgi_env_var(HeaderIn.REFERER))
    IN  IF ~Truthy(referer) THEN DictGet(e, "HTTP_REFERER") ELSE referer

\* Servlet.GetReferer of the legacy demo
GetReferer(e) ==
    LET referer == DictGet(e, "HTTP_X_SPF_REFERER")
    IN  IF ~Truthy(referer) THEN DictGet(e, "HTTP_REFERER") ELSE referer

(***************************************************************************)
(* The calls the model makes                                               *)
(***************************************************************************)
MaxLen == 4

CodePoints == {97, 233, 8364, 1114111}

HashStrings == UNION {[1..n -> CodePoints] : n \in 0..MaxLen}

Stylesheets == {None, Some(""), Some("a{color:red}")}

Javascripts == {None, Some("<script>go()</script>")}

Titles == {None, Some(""), Some("Hi")}

Names == {None, Some("demo")}

AttributeDocs == {None, Some("{}"), Some(AttrJson), Some("{nav:")}

FragmentMarkups == {None, Some(""), Some("<b class=\"x\">ok</b>")}

Contents ==
    {[attrs |-> a, str |-> s] :
        a \in [stylesheet : Stylesheets, javascript : Javascripts, title : Titles,
               name : Names, attributes : AttributeDocs,
               home_ajax_out : FragmentMarkups],
        s \in {"", "<p>x</p>"}}

FragmentArgs ==
    {None, Some(EmptyDict), Some([home_ajax_out |-> "home_ajax_out"]),
     Some([out |-> "home_ajax_out", title_box |-> "title"]),
     Some([out |-> "sidebar"])}

Envs == {EmptyDict, [HTTP_X_SPF_REQUEST |-> ""], [HTTP_X_SPF_REQUEST |-> "1"]}

Params == {EmptyDict, [spf |-> ""], [spf |-> "navigate"]}

Urls == {"/other"}

NoContent ==
    [attrs |-> [stylesheet |-> None, javascript |-> None, title |-> None,
                name |-> None, attributes |-> None, home_ajax_out |-> None],
     str |-> ""]

\* _ChunkedSample.__init__: the attributes of a new instance.
NewSample ==
    [num_chunks |-> 1, delay_time |-> Seconds(1), no_final_delimiter |-> FALSE,
     no_multipart_header |-> FALSE, add_parse_error |-> FALSE]

\* The part of the state no call has touched yet.
Fresh ==
    /\ pc = "call"
    /\ headers = EmptyDict
    /\ resp = EmptyDict
    /\ early = EmptyDict
    /\ out = <<>>
    /\ sleepAt = <<>>
    /\ ret = None
    /\ exc = "none"
    /\ idx = 0
    /\ result = <<0, 0>>
    /\ pulls = 0
    /\ self = NewSample
    /\ res = <<>>
    /\ chunk_len = 0
    /\ pos = 0

NoRequest == env = EmptyDict /\ params = EmptyDict

NoRender ==
    /\ content = NoContent
    /\ fragments = None
    /\ truncate = FALSE
    /\ debug = FALSE

InitBuild ==
    /\ op \in {"create_spf_response", "render_spf"}
    /\ content \in Contents
    /\ fragments \in FragmentArgs
    /\ debug \in BOOLEAN
    /\ truncate = FALSE
    /\ NoRequest /\ url = "" /\ string = None

InitStream ==
    /\ op = "chunked_render_spf"
    /\ content \in Contents
    /\ fragments \in FragmentArgs
    /\ truncate \in BOOLEAN
    /\ debug \in BOOLEAN
    /\ NoRequest /\ url = "" /\ string = None

InitRequest ==
    /\ op \in {"is_spf_request", "IsSPFRequest", "redirect"}
    /\ env \in Envs
    /\ params \in Params
    /\ url \in Urls
    /\ debug \in BOOLEAN
    /\ content = NoContent /\ fragments = None /\ truncate = FALSE
    /\ string = None

InitHash ==
    /\ op \in {"hashcode", "Hashcode"}
    /\ string \in {None} \cup {Some(s) : s \in HashStrings}
    /\ NoRequest /\ NoRender /\ url = ""

InitWrapped ==
    /\ op = "chunked_render"
    /\ content \in Contents
    /\ env \in Envs
    /\ params \in Params
    /\ truncate \in BOOLEAN
    /\ debug \in BOOLEAN
    /\ fragments = None /\ url = "" /\ string = None

InitRender ==
    /\ op = "render"
    /\ content \in Contents
    /\ env \in Envs
    /\ params \in Params
    /\ debug \in BOOLEAN
    /\ fragments = None /\ truncate = FALSE /\ url = "" /\ string = None

SampleOps == {"ChunkedSampleMultipart", "ChunkedSampleSingle"}

ChunksArgs ==
    {None, Some(<<"a", "b", "c">>), Some(<<"2", ".", "5">>), Some(<<"2">>),
     Some(<<"7">>), Some(<<"5", "0", "0">>), Some(<<"0">>), Some(<<"-", "1">>),
     Some(<<"-", "9", "9", "9">>)}

DelayArgs ==
    {None, Some(<<"a", "b", "c">>), Some(<<"0", ".", "5">>),
     Some(<<"n", "a", "n">>), Some(<<"-", "1">>)}

FlagArgs == {None, Some(<<"1">>)}

\* The query string as a dict: the parameters that are given.
ParamDict(q) == [k \in {n \in DOMAIN q : ~q[n].isNone} |-> q[k].v]

SampleParams ==
    {ParamDict(q) : q \in [chunks : ChunksArgs, delay : DelayArgs,
                           no_final_delimiter : FlagArgs,
                           no_multipart_header : FlagArgs,
                           add_parse_error : FlagArgs]}

InitSample ==
    /\ op \in SampleOps
    /\ params \in SampleParams
    /\ debug \in BOOLEAN
    /\ env = EmptyDict /\ content = NoContent /\ fragments = None
    /\ truncate = FALSE /\ url = "" /\ string = None

NoPair == reqs = <<>> /\ inst = <<>>

RefererValues == {None, Some(""), Some("/a"), Some("/b")}

\* The environment of a request, as far as the referer goes; a header with
\* dashes in its name is not a key the server produces, it is there to be
\* ignored.
RefererEnvs ==
    {ParamDict(q) : q \in [HTTP_X_SPF_REFERER : RefererValues,
                           HTTP_REFERER : RefererValues]}
    \cup {DictSet(DictSet(EmptyDict, "HTTP_X-SPF-REFERER", "/c"), "HTTP_REFERER", "/a")}

InitReferer ==
    /\ op \in {"get_referer", "GetReferer"}
    /\ env \in RefererEnvs
    /\ params = EmptyDict
    /\ NoRender /\ url = "" /\ string = None

IterOps == {"_iter_chunks", "_IterChunks"}

IterChars == {"a", "b"}

IterStrings == UNION {[1..n -> IterChars] : n \in 0..MaxLen}

IterNumbers == (0 - MaxLen - 1)..(MaxLen + 2)

InitIter ==
    /\ op \in IterOps
    /\ string \in {Some(s) : s \in IterStrings}
    /\ number \in IterNumbers
    /\ NoRequest /\ NoRender /\ url = ""

Init ==
    /\ Fresh
    /\ NoPair
    /\ \/ /\ number = 1
          /\ (InitBuild \/ InitStream \/ InitWrapped \/ InitRequest \/ InitHash
              \/ InitSample \/ InitRender \/ InitReferer)
       \/ InitIter

(***************************************************************************)
(* Headers                                                                 *)
(***************************************************************************)
\* Servlet._set_json_headers
SetJsonHeaders(h) == DictSet(h, "Content-Type", "application/javascript")

\* A header setter that sets nothing.
SetSpfMultipartHeaders_nothing(h) == h

\* Servlet._set_spf_multipart_headers
SetSpfMultipartHeaders(h) ==
    DictSet(h, HeaderOut.RESPONSE_TYPE, ResponseType.MULTIPART)

ArgsUnchanged ==
    UNCHANGED <<op, env, params, debug, content, fragments, truncate, url, string,
                number>>

SampleUnchanged == UNCHANGED <<self, res, chunk_len, pos>>

PairUnchanged == UNCHANGED <<reqs, inst>>

\* The generator of chunked_render_spf is running: called directly, or
\* through chunked_render for a request is_spf_request accepts.
GenRunning ==
    \/ op = "chunked_render_spf"
    \/ (op = "chunked_render" /\ is_spf_request(env, params))

(***************************************************************************)
(* Calls that run to their return in one step                              *)
(***************************************************************************)
\* A direct call of Servlet.create_spf_response.
CreateSpfResponse ==
    /\ op = "create_spf_response" /\ pc = "call"
    /\ LET r == create_spf_response(content, fragments)
       IN  /\ exc' = r.exc
           /\ ret' = IF r.exc = "none" THEN Some(r.value) ELSE None
           /\ pc' = IF r.exc = "none" THEN "done" ELSE "raised"
    /\ UNCHANGED <<headers, resp, early, out, sleepAt, idx, result>>
    /\ ArgsUnchanged
    /\ UNCHANGED pulls
    /\ SampleUnchanged /\ PairUnchanged

\* Servlet.render_spf
RenderSpf ==
    /\ op = "render_spf" /\ pc = "call"
    /\ headers' = SetJsonHeaders(headers)
    /\ LET r == create_spf_response(content, fragments)
       IN  /\ exc' = r.exc
           /\ resp' = r.value
           /\ ret' = IF r.exc = "none" THEN Some(encode_json(r.value, debug)) ELSE None
           /\ pc' = IF r.exc = "none" THEN "done" ELSE "raised"
    /\ UNCHANGED <<early, out, sleepAt, idx, result>>
    /\ ArgsUnchanged
    /\ UNCHANGED pulls
    /\ SampleUnchanged /\ PairUnchanged

\* A redirect that is sent as a response object but keeps a second key.
Redirect_with_url_key ==
    /\ op = "redirect" /\ pc = "call"
    /\ IF is_spf_request(env, params)
       THEN /\ ret' = Some(encode_json([redirect |-> url, url |-> url], debug))
            /\ resp' = [redirect |-> url, url |-> url]
            /\ pc' = "done"
            /\ UNCHANGED <<exc, headers>>
       ELSE /\ exc' = "seeother"
            /\ headers' = DictSet(headers, "Location", url)
            /\ pc' = "raised"
            /\ UNCHANGED <<ret, resp>>
    /\ UNCHANGED <<early, out, sleepAt, idx, result>>
    /\ ArgsUnchanged
    /\ UNCHANGED pulls
    /\ SampleUnchanged /\ PairUnchanged

\* Servlet.redirect; web.seeother is the HTTP layer's 303 with a Location.
Redirect ==
    /\ op = "redirect" /\ pc = "call"
    /\ IF is_spf_request(env, params)
       THEN /\ ret' = Some(encode_json(DictSet(EmptyDict, ResponseKey.REDIRECT, url), debug))
            /\ resp' = DictSet(EmptyDict, ResponseKey.REDIRECT, url)
            /\ pc' = "done"
            /\ UNCHANGED <<exc, headers>>
       ELSE /\ exc' = "seeother"
            /\ headers' = DictSet(headers, "Location", url)
            /\ pc' = "raised"
            /\ UNCHANGED <<ret, resp>>
    /\ UNCHANGED <<early, out, sleepAt, idx, result>>
    /\ ArgsUnchanged
    /\ UNCHANGED pulls
    /\ SampleUnchanged /\ PairUnchanged

\* A call of the server demo's get_referer.
GetRefererCall ==
    /\ op = "get_referer" /\ pc = "call"
    /\ ret' = get_referer(env)
    /\ pc' = "done"
    /\ UNCHANGED <<headers, resp, early, out, sleepAt, exc, idx, result>>
    /\ ArgsUnchanged
    /\ UNCHANGED pulls
    /\ SampleUnchanged /\ PairUnchanged

\* A call of the legacy demo's GetReferer.
LegacyGetRefererCall ==
    /\ op = "GetReferer" /\ pc = "call"
    /\ ret' = GetReferer(env)
    /\ pc' = "done"
    /\ UNCHANGED <<headers, resp, early, out, sleepAt, exc, idx, result>>
    /\ ArgsUnchanged
    /\ UNCHANGED pulls
    /\ SampleUnchanged /\ PairUnchanged

\* A call of the server demo's is_spf_request.
IsSpfRequestCall ==
    /\ op = "is_spf_request" /\ pc = "call"
    /\ ret' = Some(is_spf_request(env, params))
    /\ pc' = "done"
    /\ UNCHANGED <<headers, resp, early, out, sleepAt, exc, idx, result>>
    /\ ArgsUnchanged
    /\ UNCHANGED pulls
    /\ SampleUnchanged /\ PairUnchanged

\* A call of the legacy demo's IsSPFRequest.
LegacyIsSPFRequestCall ==
    /\ op = "IsSPFRequest" /\ pc = "call"
    /\ ret' = Some(IsSPFRequest(env, params))
    /\ pc' = "done"
    /\ UNCHANGED <<headers, resp, early, out, sleepAt, exc, idx, result>>
    /\ ArgsUnchanged
    /\ UNCHANGED pulls
    /\ SampleUnchanged /\ PairUnchanged

(***************************************************************************)
(* Servlet.chunked_render_spf, one action per resumption of the generator  *)
(***************************************************************************)
\* chunked_render calls chunked_render_spf(content, truncate=truncate):
\* fragments keeps its default.
StreamFragments == IF op = "chunked_render" THEN None ELSE fragments

\* A generator that produces every chunk at its first resumption.
GenBegin_eager ==
    /\ GenRunning /\ pc = "call"
    /\ headers' = SetSpfMultipartHeaders(SetJsonHeaders(headers))
    /\ LET r == create_spf_response(content, StreamFragments)
       IN  IF r.exc = "none"
           THEN /\ early' = SplitEarly(r.value)
                /\ resp' = SplitLate(r.value)
                /\ out' = out \o <<MultipartToken.BEGIN,
                                   encode_json(SplitEarly(r.value), debug),
                                   MultipartToken.DELIMITER,
                                   encode_json(SplitLate(r.value), debug),
                                   MultipartToken.END>>
                /\ pc' = "yield_end"
                /\ UNCHANGED exc
           ELSE /\ exc' = r.exc
                /\ pc' = "raised"
                /\ UNCHANGED <<early, resp, out>>
    /\ UNCHANGED <<sleepAt, ret, idx, result>>
    /\ ArgsUnchanged
    /\ pulls' = pulls + 1
    /\ SampleUnchanged /\ PairUnchanged

\* A generator that emits BEGIN whether or not the response can be built.
GenBegin_yield_first ==
    /\ GenRunning /\ pc = "call"
    /\ headers' = SetSpfMultipartHeaders(SetJsonHeaders(headers))
    /\ out' = Append(out, MultipartToken.BEGIN)
    /\ LET r == create_spf_response(content, StreamFragments)
       IN  IF r.exc = "none"
           THEN /\ early' = SplitEarly(r.value)
                /\ resp' = SplitLate(r.value)
                /\ pc' = "yield_begin"
                /\ UNCHANGED exc
           ELSE /\ exc' = r.exc
                /\ pc' = "raised"
                /\ UNCHANGED <<early, resp>>
    /\ UNCHANGED <<sleepAt, ret, idx, result>>
    /\ ArgsUnchanged
    /\ pulls' = pulls + 1
    /\ SampleUnchanged /\ PairUnchanged

\* First resumption: headers, the full response, the split, yield BEGIN.
GenBegin ==
    /\ GenRunning /\ pc = "call"
    /\ headers' = SetSpfMultipartHeaders(SetJsonHeaders(headers))
    /\ LET r == create_spf_response(content, StreamFragments)
       IN  IF r.exc = "none"
           THEN /\ early' = SplitEarly(r.value)
                /\ resp' = SplitLate(r.value)
                /\ out' = Append(out, MultipartToken.BEGIN)
                /\ pc' = "yield_begin"
                /\ UNCHANGED exc
           ELSE /\ exc' = r.exc
                /\ pc' = "raised"
                /\ UNCHANGED <<early, resp, out>>
    /\ UNCHANGED <<sleepAt, ret, idx, result>>
    /\ ArgsUnchanged
    /\ pulls' = pulls + 1
    /\ SampleUnchanged /\ PairUnchanged

\* yield self.encode_json(early)
GenEarly ==
    /\ GenRunning /\ pc = "yield_begin"
    /\ out' = Append(out, encode_json(early, debug))
    /\ pc' = "yield_early"
    /\ UNCHANGED <<headers, resp, early, sleepAt, ret, exc, idx, result>>
    /\ ArgsUnchanged
    /\ pulls' = pulls + 1
    /\ SampleUnchanged /\ PairUnchanged

\* A resumption that waits before it yields DELIMITER.
GenDelimiter_sleep_first ==
    /\ GenRunning /\ pc = "yield_early"
    /\ sleepAt' = Append(sleepAt, Len(out))
    /\ out' = Append(out, MultipartToken.DELIMITER)
    /\ pc' = "yield_delimiter"
    /\ UNCHANGED <<headers, resp, early, ret, exc, idx, result>>
    /\ ArgsUnchanged
    /\ pulls' = pulls + 1
    /\ SampleUnchanged /\ PairUnchanged

\* yield spf.MultipartToken.DELIMITER
GenDelimiter ==
    /\ GenRunning /\ pc = "yield_early"
    /\ out' = Append(out, MultipartToken.DELIMITER)
    /\ pc' = "yield_delimiter"
    /\ UNCHANGED <<headers, resp, early, sleepAt, ret, exc, idx, result>>
    /\ ArgsUnchanged
    /\ pulls' = pulls + 1
    /\ SampleUnchanged /\ PairUnchanged

\* A resumption that sends part 2 whatever truncate says.
GenLate_ignore_truncate ==
    /\ GenRunning /\ pc = "yield_delimiter"
    /\ sleepAt' = Append(sleepAt, Len(out))
    /\ out' = Append(out, encode_json(resp, debug))
    /\ pc' = "yield_late"
    /\ UNCHANGED <<headers, resp, early, ret, exc, idx, result>>
    /\ ArgsUnchanged
    /\ pulls' = pulls + 1
    /\ SampleUnchanged /\ PairUnchanged

\* time.sleep(0.25), then part 2 unless truncate, in which case the
\* generator returns.
GenLate ==
    /\ GenRunning /\ pc = "yield_delimiter"
    /\ sleepAt' = Append(sleepAt, Len(out))
    /\ IF ~truncate
       THEN /\ out' = Append(out, encode_json(resp, debug))
            /\ pc' = "yield_late"
       ELSE /\ pc' = "done"
            /\ UNCHANGED out
    /\ UNCHANGED <<headers, resp, early, ret, exc, idx, result>>
    /\ ArgsUnchanged
    /\ pulls' = pulls + 1
    /\ SampleUnchanged /\ PairUnchanged

\* A generator that returns after part 2 without the closing token.
GenEnd_missing ==
    /\ GenRunning /\ pc = "yield_late"
    /\ pc' = "done"
    /\ UNCHANGED <<headers, resp, early, out, sleepAt, ret, exc, idx, result>>
    /\ ArgsUnchanged
    /\ pulls' = pulls + 1
    /\ SampleUnchanged /\ PairUnchanged

\* yield spf.MultipartToken.END
GenEnd ==
    /\ GenRunning /\ pc = "yield_late"
    /\ out' = Append(out, MultipartToken.END)
    /\ pc' = "yield_end"
    /\ UNCHANGED <<headers, resp, early, sleepAt, ret, exc, idx, result>>
    /\ ArgsUnchanged
    /\ pulls' = pulls + 1
    /\ SampleUnchanged /\ PairUnchanged

\* The resumption after END: the function body is over.
GenReturn ==
    /\ GenRunning /\ pc = "yield_end"
    /\ pc' = "done"
    /\ UNCHANGED <<headers, resp, early, out, sleepAt, ret, exc, idx, result>>
    /\ ArgsUnchanged
    /\ pulls' = pulls + 1
    /\ SampleUnchanged /\ PairUnchanged

\* The consumer stops asking after a chunk (the client went away) while the
\* generator is suspended: the generator is abandoned where it is.
Disconnect ==
    /\ op \in {"chunked_render_spf", "chunked_render"}
    /\ pc \in {"yield_begin", "yield_early", "yield_delimiter",
               "yield_late", "yield_end", "yield_html"}
    /\ pc' = "closed"
    /\ UNCHANGED <<headers, resp, early, out, sleepAt, ret, exc, idx, result>>
    /\ ArgsUnchanged
    /\ UNCHANGED pulls
    /\ SampleUnchanged /\ PairUnchanged

(***************************************************************************)
(* Servlet.chunked_render for a request that is_spf_request refuses:       *)
(* chunked_render_html                                                     *)
(***************************************************************************)
\* TEMPLATES.base(content): the HTML document around the content.
BaseTemplate(c) == "<!DOCTYPE html><html><body>" \o c.str \o "</body></html>"

\* Servlet.render: render_spf(content) when is_spf_request, else
\* render_html(content).
Render ==
    /\ op = "render" /\ pc = "call"
    /\ IF is_spf_request(env, params)
       THEN /\ headers' = SetJsonHeaders(headers)
            /\ LET r == create_spf_response(content, None)
               IN  /\ exc' = r.exc
                   /\ resp' = r.value
                   /\ ret' = IF r.exc = "none"
                             THEN Some(encode_json(r.value, debug)) ELSE None
                   /\ pc' = IF r.exc = "none" THEN "done" ELSE "raised"
       ELSE /\ ret' = Some(BaseTemplate(content))
            /\ pc' = "done"
            /\ UNCHANGED <<headers, exc, resp>>
    /\ UNCHANGED <<early, out, sleepAt, idx, result>>
    /\ ArgsUnchanged
    /\ UNCHANGED pulls
    /\ SampleUnchanged /\ PairUnchanged

\* A chunked_render_html that announces a multipart response.
HtmlBegin_multipart ==
    /\ op = "chunked_render" /\ ~is_spf_request(env, params) /\ pc = "call"
    /\ headers' = SetSpfMultipartHeaders(headers)
    /\ out' = Append(out, BaseTemplate(content))
    /\ pc' = "yield_html"
    /\ pulls' = pulls + 1
    /\ UNCHANGED <<resp, early, sleepAt, ret, exc, idx, result>>
    /\ ArgsUnchanged
    /\ SampleUnchanged /\ PairUnchanged

\* First resumption: yield TEMPLATES.base(content)
HtmlBegin ==
    /\ op = "chunked_render" /\ ~is_spf_request(env, params) /\ pc = "call"
    /\ out' = Append(out, BaseTemplate(content))
    /\ pc' = "yield_html"
    /\ pulls' = pulls + 1
    /\ UNCHANGED <<headers, resp, early, sleepAt, ret, exc, idx, result>>
    /\ ArgsUnchanged
    /\ SampleUnchanged /\ PairUnchanged

\* The resumption after the document: the function body is over.
HtmlReturn ==
    /\ op = "chunked_render" /\ pc = "yield_html"
    /\ pc' = "done"
    /\ pulls' = pulls + 1
    /\ UNCHANGED <<headers, resp, early, out, sleepAt, ret, exc, idx, result>>
    /\ ArgsUnchanged
    /\ SampleUnchanged /\ PairUnchanged

(***************************************************************************)
(* ChunkedSampleMultipart.GET and ChunkedSampleSingle.GET, one action per  *)
(* resumption of the generator                                             *)
(***************************************************************************)
\* The headers the handler sets before it builds the response.
SampleHeaders(o, s, h) ==
    IF o = "ChunkedSampleMultipart" /\ ~s.no_multipart_header
    THEN SetSpfMultipartHeaders(SetJsonHeaders(h))
    ELSE SetJsonHeaders(h)

\* One turn of `for chunk in self._iter_chunks(res, self.num_chunks)` with
\* idx = i: the range is exhausted, or time.sleep(self.delay_time) and the
\* yield of string[idx:idx+length].
SampleIterate(s, r, length, i) ==
    IF ~InRange(i, Len(r), length)
    THEN /\ pc' = "done"
         /\ UNCHANGED <<exc, sleepAt, out, pos>>
    ELSE IF SleepRaises(s.delay_time)
    THEN /\ pc' = "raised"
         /\ exc' \in {"ValueError", "IOError"}
         /\ pos' = i
         /\ UNCHANGED <<sleepAt, out>>
    ELSE /\ sleepAt' = Append(sleepAt, Len(out))
         /\ out' = Append(out, Concat(Slice(r, i, length)))
         /\ pos' = i
         /\ pc' = "yield_chunk"
         /\ UNCHANGED exc

\* First resumption: _handle_input, the headers, the response string, the
\* start of _iter_chunks and the first chunk.
SampleBegin ==
    /\ op \in SampleOps /\ pc = "call"
    /\ self' = handle_input(params)
    /\ headers' = SampleHeaders(op, self', headers)
    /\ res' = SampleResponse(op, self', debug)
    /\ LET length == ChunkLength(Len(res'), self'.num_chunks)
       IN  IF length.exc # "none"
           THEN /\ pc' = "raised" /\ exc' = length.exc
                /\ UNCHANGED <<chunk_len, pos, sleepAt, out>>
           ELSE IF RangeRaises(length.v)
           THEN /\ pc' = "raised" /\ exc' = "ValueError"
                /\ chunk_len' = length.v
                /\ UNCHANGED <<pos, sleepAt, out>>
           ELSE /\ chunk_len' = length.v
                /\ SampleIterate(self', res', length.v, 0)
    /\ pulls' = pulls + 1
    /\ UNCHANGED <<resp, early, ret, idx, result>>
    /\ ArgsUnchanged
    /\ PairUnchanged

\* A later resumption: the next idx of the range.
SampleNext ==
    /\ op \in SampleOps /\ pc = "yield_chunk"
    /\ SampleIterate(self, res, chunk_len, pos + chunk_len)
    /\ pulls' = pulls + 1
    /\ UNCHANGED <<headers, resp, early, ret, idx, result, self, res, chunk_len>>
    /\ ArgsUnchanged
    /\ PairUnchanged

(***************************************************************************)
(* _ChunkedSample._iter_chunks and the legacy _IterChunks called on their  *)
(* own, one action per resumption of the generator                         *)
(***************************************************************************)
\* One turn of `for idx in range(0, len(string), length)` with idx = i:
\* the range is exhausted, or string[idx:idx+length] is yielded.
IterTurn(s, length, i) ==
    IF ~InRange(i, Len(s), length)
    THEN /\ pc' = "done"
         /\ UNCHANGED <<out, pos>>
    ELSE /\ out' = Append(out, Concat(Slice(s, i, length)))
         /\ pos' = i
         /\ pc' = "yield_chunk"

\* First resumption: length, the range and its first turn.
IterBegin ==
    /\ op \in IterOps /\ pc = "call"
    /\ LET length == ChunkLength(Len(string.v), number)
       IN  IF length.exc # "none"
           THEN /\ pc' = "raised" /\ exc' = length.exc
                /\ UNCHANGED <<chunk_len, pos, out>>
           ELSE IF RangeRaises(length.v)
           THEN /\ pc' = "raised" /\ exc' = "ValueError"
                /\ chunk_len' = length.v
                /\ UNCHANGED <<pos, out>>
           ELSE /\ chunk_len' = length.v
                /\ IterTurn(string.v, length.v, 0)
                /\ UNCHANGED exc
    /\ pulls' = pulls + 1
    /\ UNCHANGED <<headers, resp, early, sleepAt, ret, idx, result, self, res>>
    /\ ArgsUnchanged
    /\ PairUnchanged

\* A later resumption: the next idx of the range.
IterNext ==
    /\ op \in IterOps /\ pc = "yield_chunk"
    /\ IterTurn(string.v, chunk_len, pos + chunk_len)
    /\ pulls' = pulls + 1
    /\ UNCHANGED <<headers, resp, early, sleepAt, ret, exc, idx, result,
                   self, res, chunk_len>>
    /\ ArgsUnchanged
    /\ PairUnchanged

(***************************************************************************)
(* The two hash functions, one action per loop iteration                   *)
(***************************************************************************)
\* The characters the for loop of spf.hashcode runs over: '' for None.
HashcodeChars == IF string.isNone THEN <<>> ELSE string.v

\* spf.hashcode up to the loop.
HashcodeEnter ==
    /\ op = "hashcode" /\ pc = "call"
    /\ result' = <<0, 0>>
    /\ idx' = 0
    /\ pc' = "loop"
    /\ UNCHANGED <<headers, resp, early, out, sleepAt, ret, exc>>
    /\ ArgsUnchanged
    /\ UNCHANGED pulls
    /\ SampleUnchanged /\ PairUnchanged

HashcodeLoop ==
    /\ op = "hashcode" /\ pc = "loop" /\ idx < Len(HashcodeChars)
    /\ result' = hashcode_step(result, HashcodeChars[idx + 1])
    /\ idx' = idx + 1
    /\ UNCHANGED <<pc, headers, resp, early, out, sleepAt, ret, exc>>
    /\ ArgsUnchanged
    /\ UNCHANGED pulls
    /\ SampleUnchanged /\ PairUnchanged

HashcodeReturn ==
    /\ op = "hashcode" /\ pc = "loop" /\ idx = Len(HashcodeChars)
    /\ ret' = Some(result)
    /\ pc' = "done"
    /\ UNCHANGED <<headers, resp, early, out, sleepAt, exc, idx, result>>
    /\ ArgsUnchanged
    /\ UNCHANGED pulls
    /\ SampleUnchanged /\ PairUnchanged

\* The legacy Hashcode up to the loop: iterating None raises TypeError.
LegacyHashcodeEnter ==
    /\ op = "Hashcode" /\ pc = "call"
    /\ result' = <<0, 0>>
    /\ idx' = 0
    /\ IF string.isNone
       THEN exc' = "TypeError" /\ pc' = "raised"
       ELSE pc' = "loop" /\ UNCHANGED exc
    /\ UNCHANGED <<headers, resp, early, out, sleepAt, ret>>
    /\ ArgsUnchanged
    /\ UNCHANGED pulls
    /\ SampleUnchanged /\ PairUnchanged

LegacyHashcodeLoop ==
    /\ op = "Hashcode" /\ pc = "loop" /\ idx < Len(string.v)
    /\ result' = Hashcode_step(result, string.v[idx + 1])
    /\ idx' = idx + 1
    /\ UNCHANGED <<pc, headers, resp, early, out, sleepAt, ret, exc>>
    /\ ArgsUnchanged
    /\ UNCHANGED pulls
    /\ SampleUnchanged /\ PairUnchanged

LegacyHashcodeReturn ==
    /\ op = "Hashcode" /\ pc = "loop" /\ idx = Len(string.v)
    /\ ret' = Some(result)
    /\ pc' = "done"
    /\ UNCHANGED <<headers, resp, early, out, sleepAt, exc, idx, result>>
    /\ ArgsUnchanged
    /\ UNCHANGED pulls
    /\ SampleUnchanged /\ PairUnchanged

(***************************************************************************)
(* The specification                                                       *)
(***************************************************************************)
Next ==
    \/ CreateSpfResponse
    \/ RenderSpf
    \/ Redirect
    \/ IsSpfRequestCall
    \/ LegacyIsSPFRequestCall
    \/ GetRefererCall
    \/ LegacyGetRefererCall
    \/ GenBegin
    \/ GenEarly
    \/ GenDelimiter
    \/ GenLate
    \/ GenEnd
    \/ GenReturn
    \/ Disconnect
    \/ HtmlBegin
    \/ HtmlReturn
    \/ Render
    \/ SampleBegin
    \/ SampleNext
    \/ IterBegin
    \/ IterNext
    \/ HashcodeEnter
    \/ HashcodeLoop
    \/ HashcodeReturn
    \/ LegacyHashcodeEnter
    \/ LegacyHashcodeLoop
    \/ LegacyHashcodeReturn

Spec == Init /\ [][Next]_vars

(***************************************************************************)
(* Two requests handled at the same time.  The server makes a new handler  *)
(* instance for every request; a step of a request reads and writes the    *)
(* attributes of its instance and its own locals.                          *)
(***************************************************************************)
PairIds == 1..2

\* A handler instance shared by all requests.
InstanceOf_shared(r) == 1

\* The instance that handles request r: the one constructed for it.
InstanceOf(r) == r

PairContents ==
    {c \in Contents :
        /\ c.attrs.stylesheet = Some("a{color:red}") /\ c.attrs.javascript = None
        /\ c.attrs.title = Some("Hi") /\ c.attrs.home_ajax_out = None
        /\ c.attrs.attributes \in {None, Some("{nav:")}
        /\ c.str = "<p>x</p>"}

PairParams ==
    {EmptyDict,
     [chunks |-> <<"2">>],
     [chunks |-> <<"7">>, add_parse_error |-> <<"1">>],
     [delay |-> <<"n", "a", "n">>, no_multipart_header |-> <<"1">>],
     [chunks |-> <<"0">>, no_final_delimiter |-> <<"1">>]}

NewRequest(kind, p, c, t) ==
    [kind |-> kind, params |-> p, content |-> c, truncate |-> t,
     pc |-> "call", headers |-> EmptyDict, res |-> <<>>, chunk_len |-> 0,
     pos |-> 0, resp |-> EmptyDict, early |-> EmptyDict, out |-> <<>>,
     exc |-> "none"]

PairRequests ==
    {NewRequest(k, p, NoContent, FALSE) : k \in SampleOps, p \in PairParams}
    \cup {NewRequest("chunked_render_spf", EmptyDict, c, t) :
            c \in PairContents, t \in BOOLEAN}

InitPair ==
    /\ Fresh
    /\ op = "pair"
    /\ NoRequest /\ url = "" /\ string = None
    /\ content = NoContent /\ fragments = None /\ truncate = FALSE
    /\ debug \in BOOLEAN
    /\ reqs \in [PairIds -> PairRequests]
    /\ inst = [i \in PairIds |-> NewSample]
    /\ number = 1

PairFrame ==
    /\ UNCHANGED <<pc, headers, resp, early, out, sleepAt, ret, exc, idx, result>>
    /\ UNCHANGED <<pulls, self, res, chunk_len, pos>>
    /\ ArgsUnchanged

\* self._handle_input()
PairHandleInput(r) ==
    /\ op = "pair" /\ reqs[r].kind \in SampleOps /\ reqs[r].pc = "call"
    /\ inst' = [inst EXCEPT ![InstanceOf(r)] = handle_input(reqs[r].params)]
    /\ reqs' = [reqs EXCEPT ![r].pc = "handled"]
    /\ PairFrame

\* The headers and the response string, from the flags of the instance.
PairBuild(r) ==
    /\ op = "pair" /\ reqs[r].pc = "handled"
    /\ LET me == reqs[r]
           s == inst[InstanceOf(r)]
       IN  reqs' = [reqs EXCEPT ![r] =
                [me EXCEPT !.headers = SampleHeaders(me.kind, s, me.headers),
                           !.res = SampleResponse(me.kind, s, debug),
                           !.pc = "built"]]
    /\ UNCHANGED inst
    /\ PairFrame

\* self._iter_chunks(res, self.num_chunks) up to its loop.
PairStart(r) ==
    /\ op = "pair" /\ reqs[r].pc = "built"
    /\ LET me == reqs[r]
           length == ChunkLength(Len(me.res), inst[InstanceOf(r)].num_chunks)
       IN  reqs' = [reqs EXCEPT ![r] =
                IF length.exc # "none"
                THEN [me EXCEPT !.pc = "raised", !.exc = length.exc]
                ELSE IF RangeRaises(length.v)
                THEN [me EXCEPT !.pc = "raised", !.exc = "ValueError",
                                !.chunk_len = length.v]
                ELSE [me EXCEPT !.pc = "iter", !.chunk_len = length.v]]
    /\ UNCHANGED inst
    /\ PairFrame

\* One turn of the chunk loop: time.sleep(self.delay_time), yield chunk.
PairChunk(r) ==
    /\ op = "pair" /\ reqs[r].pc = "iter"
    /\ LET me == reqs[r]
       IN  IF ~InRange(me.pos, Len(me.res), me.chunk_len)
           THEN reqs' = [reqs EXCEPT ![r].pc = "done"]
           ELSE IF SleepRaises(inst[InstanceOf(r)].delay_time)
           THEN \E e \in {"ValueError", "IOError"} :
                    reqs' = [reqs EXCEPT ![r] = [me EXCEPT !.pc = "raised", !.exc = e]]
           ELSE reqs' = [reqs EXCEPT ![r] =
                    [me EXCEPT !.out = Append(me.out,
                                         Concat(Slice(me.res, me.pos, me.chunk_len))),
                               !.pos = me.pos + me.chunk_len]]
    /\ UNCHANGED inst
    /\ PairFrame

\* chunked_render_spf up to the yield of BEGIN.
PairGenBegin(r) ==
    /\ op = "pair" /\ reqs[r].kind = "chunked_render_spf" /\ reqs[r].pc = "call"
    /\ LET me == reqs[r]
           b == create_spf_response(me.content, None)
       IN  reqs' = [reqs EXCEPT ![r] =
                IF b.exc = "none"
                THEN [me EXCEPT
                        !.headers = SetSpfMultipartHeaders(SetJsonHeaders(me.headers)),
                        !.early = SplitEarly(b.value),
                        !.resp = SplitLate(b.value),
                        !.out = Append(me.out, MultipartToken.BEGIN),
                        !.pc = "yield_begin"]
                ELSE [me EXCEPT
                        !.headers = SetSpfMultipartHeaders(SetJsonHeaders(me.headers)),
                        !.exc = b.exc, !.pc = "raised"]]
    /\ UNCHANGED inst
    /\ PairFrame

\* yield self.encode_json(early)
PairGenEarly(r) ==
    /\ op = "pair" /\ reqs[r].pc = "yield_begin"
    /\ reqs' = [reqs EXCEPT ![r].out = Append(@, encode_json(reqs[r].early, debug)),
                            ![r].pc = "yield_early"]
    /\ UNCHANGED inst
    /\ PairFrame

\* yield spf.MultipartToken.DELIMITER
PairGenDelimiter(r) ==
    /\ op = "pair" /\ reqs[r].pc = "yield_early"
    /\ reqs' = [reqs EXCEPT ![r].out = Append(@, MultipartToken.DELIMITER),
                            ![r].pc = "yield_delimiter"]
    /\ UNCHANGED inst
    /\ PairFrame

\* time.sleep(0.25), then part 2 unless truncate.
PairGenLate(r) ==
    /\ op = "pair" /\ reqs[r].pc = "yield_delimiter"
    /\ IF ~reqs[r].truncate
       THEN reqs' = [reqs EXCEPT ![r].out = Append(@, encode_json(reqs[r].resp, debug)),
                                 ![r].pc = "yield_late"]
       ELSE reqs' = [reqs EXCEPT ![r].pc = "done"]
    /\ UNCHANGED inst
    /\ PairFrame

\* yield spf.MultipartToken.END
PairGenEnd(r) ==
    /\ op = "pair" /\ reqs[r].pc = "yield_late"
    /\ reqs' = [reqs EXCEPT ![r].out = Append(@, MultipartToken.END),
                            ![r].pc = "yield_end"]
    /\ UNCHANGED inst
    /\ PairFrame

\* The resumption after END.
PairGenReturn(r) ==
    /\ op = "pair" /\ reqs[r].pc = "yield_end"
    /\ reqs' = [reqs EXCEPT ![r].pc = "done"]
    /\ UNCHANGED inst
    /\ PairFrame

NextPair ==
    \E r \in PairIds :
        \/ PairHandleInput(r)
        \/ PairBuild(r)
        \/ PairStart(r)
        \/ PairChunk(r)
        \/ PairGenBegin(r)
        \/ PairGenEarly(r)
        \/ PairGenDelimiter(r)
        \/ PairGenLate(r)
        \/ PairGenEnd(r)
        \/ PairGenReturn(r)

SpecPair == InitPair /\ [][NextPair]_vars

(***************************************************************************)
(* Properties                                                              *)
(***************************************************************************)
Streaming == op = "chunked_render_spf"

\* The generator has built and split the response.
SplitDone == Streaming /\ pc \notin {"call", "raised"}

IsPrefix(a, b) == Len(a) <= Len(b) /\ \A i \in 1..Len(a) : a[i] = b[i]

FiveChunks ==
    <<"[\r\n", encode_json(early, debug), ",\r\n", encode_json(resp, debug), "]\r\n">>

ThreeChunks == <<"[\r\n", encode_json(early, debug), ",\r\n">>

\* C1: with truncate false, chunked_render_spf yields exactly BEGIN, the
\* encoded early object, DELIMITER, the encoded late object and END, in this
\* order, and nothing after END: what has been yielded is at every moment a
\* prefix of these five chunks, and all five have been yielded when the
\* generator has returned.
C1_FiveEmissionsInOrder ==
    (SplitDone /\ ~truncate) =>
        /\ IsPrefix(out, FiveChunks)
        /\ (pc \in {"yield_end", "done"} => out = FiveChunks)
        /\ (pc = "yield_late" => Len(out) = 4)

C1_Witness ==
    /\ Streaming /\ ~truncate /\ pc = "done"
    /\ Len(out) = 5
    /\ out[1] = "[\r\n" /\ out[3] = ",\r\n" /\ out[5] = "]\r\n"
    /\ out[2] = "{\"head\":\"a{color:red}\",\"title\":\"Hi\"}"
    /\ out[4] = "{\"body\":{\"content\":\"<p>x</p>\"}}"

\* C2: with truncate true, chunked_render_spf stops after DELIMITER: exactly
\* BEGIN, the encoded early object and one DELIMITER are yielded, the late
\* object and END never are.
C2_TruncatedStopsAfterDelimiter ==
    (SplitDone /\ truncate) =>
        /\ IsPrefix(out, ThreeChunks)
        /\ (pc = "done" => out = ThreeChunks)
        /\ \A i \in 1..Len(out) : out[i] # "]\r\n"
        /\ Cardinality({i \in 1..Len(out) : out[i] = ",\r\n"})
               = (IF pc \in {"yield_delimiter", "done"}
                        \/ (pc = "closed" /\ Len(out) = 3) THEN 1 ELSE 0)
        /\ pc \notin {"yield_late", "yield_end"}

C2_Witness ==
    /\ Streaming /\ truncate /\ pc = "done"
    /\ out = <<"[\r\n", "{\"title\":\"Hi\"}", ",\r\n">>
    /\ "body" \in DOMAIN resp
    /\ sleepAt = <<3>>

\* The response create_spf_response built for the call.
FullResponse == create_spf_response(content, fragments).value

\* C3: the split yields an early object with keys among head, title, name
\* and a late object with the rest: head and title are not in the late
\* object, name is in both with the same value, and every other field of the
\* full response is in exactly one part with its value unchanged.
C3_SplitPartitionsResponse ==
    SplitDone =>
        /\ DOMAIN early \subseteq {"head", "title", "name"}
        /\ "head" \notin DOMAIN resp /\ "title" \notin DOMAIN resp
        /\ (DOMAIN early) \cup (DOMAIN resp) = DOMAIN FullResponse
        /\ ("name" \in DOMAIN FullResponse =>
                /\ "name" \in DOMAIN early /\ "name" \in DOMAIN resp
                /\ early["name"] = FullResponse["name"]
                /\ resp["name"] = FullResponse["name"])
        /\ \A k \in (DOMAIN FullResponse) \ {"name"} :
                /\ (k \in DOMAIN early) # (k \in DOMAIN resp)
                /\ (k \in DOMAIN early => early[k] = FullResponse[k])
                /\ (k \in DOMAIN resp => resp[k] = FullResponse[k])

C3_Witness ==
    /\ SplitDone /\ pc = "done"
    /\ DOMAIN early = {"head", "title", "name"}
    /\ DOMAIN resp = {"foot", "name", "attr", "body"}
    /\ early["name"] = "demo" /\ resp["name"] = "demo"

HeaderGiven == "HTTP_X_SPF_REQUEST" \in DOMAIN env /\ env["HTTP_X_SPF_REQUEST"] # ""

ParamGiven == "spf" \in DOMAIN params /\ params["spf"] # ""

\* C4: both negotiators, is_spf_request of the server demo and IsSPFRequest
\* of the legacy demo, return true exactly when the X-SPF-Request header or
\* the spf parameter (or both) is set and truthy.
C4_HeaderOrParam ==
    (op \in {"is_spf_request", "IsSPFRequest"} /\ pc = "done") =>
        ret = Some(HeaderGiven \/ ParamGiven)

\* C5: redirect(url) in fragment mode returns the JSON encoding of the
\* object {redirect: url} and instructs no HTTP redirect; otherwise it
\* instructs an HTTP redirect to url and returns no body.  No response object
\* holds redirect next to another key.
C5_RedirectEitherBodyOrHttp ==
    /\ (op = "redirect" /\ pc # "call") =>
          IF ParamGiven
          THEN /\ pc = "done" /\ exc = "none"
               /\ "Location" \notin DOMAIN headers
               /\ DOMAIN resp = {"redirect"} /\ resp["redirect"] = url
               /\ ret = Some(IF debug
                             THEN "{\n    \"redirect\": \"" \o url \o "\"\n}"
                             ELSE "{\"redirect\":\"" \o url \o "\"}")
          ELSE /\ pc = "raised" /\ exc = "seeother"
               /\ "Location" \in DOMAIN headers /\ headers["Location"] = url
               /\ ret = None
    /\ \A r \in {resp, early} \cup
                (IF op = "create_spf_response" /\ pc = "done" THEN {ret.v} ELSE {}) :
          "redirect" \in DOMAIN r => DOMAIN r = {"redirect"}

C5_Witness ==
    /\ op = "redirect" /\ pc = "done"
    /\ env = EmptyDict /\ params = [spf |-> "navigate"]
    /\ ret = Some("{\"redirect\":\"/other\"}")
    /\ headers = EmptyDict

\* A call of create_spf_response has returned an object.
Built == op = "create_spf_response" /\ pc = "done"

\* The template has the attribute and its value is not the empty string.
NonEmptyAttr(n) == (~content.attrs[n].isNone) /\ content.attrs[n].v # ""

\* The top-level keys head, foot, title, name and attr stand for a source
\* field that is there and is not empty.
TopLevelKeysHaveSource(r) ==
    /\ ("head" \in DOMAIN r => NonEmptyAttr("stylesheet"))
    /\ ("foot" \in DOMAIN r => NonEmptyAttr("javascript"))
    /\ ("title" \in DOMAIN r => NonEmptyAttr("title"))
    /\ ("name" \in DOMAIN r => NonEmptyAttr("name"))
    /\ ("attr" \in DOMAIN r =>
            content.attrs["attributes"] = Some("{\"nav\":{\"class\":\"on\"}}"))

\* The source of a body entry: the attribute the fragment id names, or the
\* string conversion for the whole-document entry.
BodyEntryHasSource(id) ==
    IF (~fragments.isNone) /\ id \in DOMAIN fragments.v
    THEN /\ fragments.v[id] \in DOMAIN content.attrs
         /\ NonEmptyAttr(fragments.v[id])
    ELSE id = "content" /\ content.str # ""

\* C6 as stated: the object create_spf_response returns has no key (head,
\* foot, title, name, attr, body, or an entry inside body) whose source field
\* on content was empty or absent, whatever fragment_ids is.
C6_NoKeyWithoutSource ==
    Built =>
        /\ TopLevelKeysHaveSource(ret.v)
        /\ ("body" \in DOMAIN ret.v =>
                /\ DOMAIN ret.v["body"] # {}
                /\ \A id \in DOMAIN ret.v["body"] : BodyEntryHasSource(id))

\* C6 amended: the object create_spf_response returns has no top-level key
\* head, foot, title, name or attr whose source field was empty or absent,
\* body is never an empty mapping, and the whole-document entry is there
\* only for a non-empty string conversion; an entry of body that comes from
\* a non-empty fragment_ids mapping is there whatever the attribute's value,
\* the empty string included.
C6_NoTopLevelKeyWithoutSource ==
    Built =>
        /\ TopLevelKeysHaveSource(ret.v)
        /\ ("body" \in DOMAIN ret.v =>
                /\ DOMAIN ret.v["body"] # {}
                /\ IF (~fragments.isNone) /\ DOMAIN fragments.v # {}
                   THEN \A id \in DOMAIN ret.v["body"] :
                            /\ id \in DOMAIN fragments.v
                            /\ ret.v["body"][id] = content.attrs[fragments.v[id]].v
                   ELSE /\ DOMAIN ret.v["body"] = {"content"}
                        /\ content.str # "")

C6_Witness ==
    /\ Built
    /\ fragments = Some([out |-> "home_ajax_out", title_box |-> "title"])
    /\ content.attrs["title"] = Some("") /\ content.attrs["stylesheet"] = Some("")
    /\ content.attrs["home_ajax_out"] = Some("")
    /\ DOMAIN ret.v = {"body"}
    /\ ret.v["body"] = [out |-> "", title_box |-> ""]

\* C7: whenever a fragment_ids mapping is supplied to create_spf_response,
\* of any size, the key set of body is the key set of fragment_ids, each
\* value is the named attribute of content, and the whole-document entry
\* is used only when fragment_ids is not supplied.
C7_BodyKeysAreFragmentIds ==
    Built =>
        LET body == IF "body" \in DOMAIN ret.v THEN ret.v["body"] ELSE EmptyDict
        IN  IF ~fragments.isNone
            THEN /\ DOMAIN body = DOMAIN fragments.v
                 /\ \A id \in DOMAIN body :
                        body[id] = content.attrs[fragments.v[id]].v
            ELSE /\ DOMAIN body \subseteq {"content"}
                 /\ \A id \in DOMAIN body : body[id] = content.str

\* C8: with fragment_ids unset the object create_spf_response returns has
\* head, foot, title, name exactly for the non-empty stylesheet, javascript,
\* title, name, attr exactly for non-empty parsed attributes, and body =
\* {content: string conversion} exactly for a non-empty string conversion,
\* each with the source's value; the example content gives head, title and
\* body and no other key.
C8_ExactKeysWithoutFragments ==
    (Built /\ fragments.isNone) =>
        LET r == ret.v
            a == content.attrs
        IN  /\ DOMAIN r \subseteq {"head", "foot", "title", "name", "attr", "body"}
            /\ ("head" \in DOMAIN r) = NonEmptyAttr("stylesheet")
            /\ ("head" \in DOMAIN r => r["head"] = a["stylesheet"].v)
            /\ ("foot" \in DOMAIN r) = NonEmptyAttr("javascript")
            /\ ("foot" \in DOMAIN r => r["foot"] = a["javascript"].v)
            /\ ("title" \in DOMAIN r) = NonEmptyAttr("title")
            /\ ("title" \in DOMAIN r => r["title"] = a["title"].v)
            /\ ("name" \in DOMAIN r) = NonEmptyAttr("name")
            /\ ("name" \in DOMAIN r => r["name"] = a["name"].v)
            /\ ("attr" \in DOMAIN r) = (a["attributes"] = Some("{\"nav\":{\"class\":\"on\"}}"))
            /\ ("attr" \in DOMAIN r => r["attr"] = [nav |-> [class |-> "on"]])
            /\ ("body" \in DOMAIN r) = (content.str # "")
            /\ ("body" \in DOMAIN r => r["body"] = [content |-> content.str])
            /\ ((/\ a["stylesheet"] = Some("a{color:red}") /\ a["title"] = Some("Hi")
                 /\ content.str = "<p>x</p>" /\ a["javascript"].isNone
                 /\ a["name"].isNone /\ a["attributes"].isNone)
                => r = [head |-> "a{color:red}", title |-> "Hi",
                        body |-> [content |-> "<p>x</p>"]])

C8_Witness ==
    /\ Built /\ fragments.isNone
    /\ content.attrs["stylesheet"] = Some("a{color:red}")
    /\ content.attrs["title"] = Some("Hi")
    /\ content.attrs["javascript"].isNone /\ content.attrs["name"].isNone
    /\ content.attrs["attributes"].isNone
    /\ content.str = "<p>x</p>"
    /\ DOMAIN ret.v = {"head", "title", "body"}

Hashing == op \in {"hashcode", "Hashcode"}

\* n is an integer of [0, 2^32): both base-2^16 digits are digits.
InUnsigned32(n) == n[1] \in 0..65535 /\ n[2] \in 0..65535

\* C9: for every input string, code points above 255 included, the running
\* result of the hash is in [0, 2^32) after every character and so is the
\* value returned.
C9_HashInUnsigned32 ==
    Hashing =>
        /\ InUnsigned32(result)
        /\ (pc = "done" => (~ret.isNone) /\ InUnsigned32(ret.v))

C9_Witness ==
    /\ op = "hashcode" /\ pc = "done"
    /\ string = Some(<<1114111, 1114111, 1114111, 1114111>>)
    /\ ret = Some(<<64575, 34752>>)

\* C10: every hash implementation (spf.hashcode and the legacy Hashcode)
\* returns 0 for the empty string and for None, without raising.
C10_EmptyAndNoneHashToZero ==
    (Hashing /\ (string.isNone \/ string = Some(<<>>)) /\ pc \notin {"call", "loop"}) =>
        /\ pc = "done" /\ exc = "none"
        /\ ret = Some(<<0, 0>>)

\* a + b
IntAdd(a, b) == IntNorm(a[1] + b[1], a[2] + b[2])

\* c * 31^k, without reduction
RECURSIVE HashTerm(_, _)
HashTerm(c, k) == IF k = 0 THEN IntNorm(0, c) ELSE IntMulAdd(31, HashTerm(c, k - 1), 0)

\* s[1]*31^(n-1) + s[2]*31^(n-2) + ... + s[n], from position i on, without
\* reduction
RECURSIVE HashSum(_, _)
HashSum(s, i) ==
    IF i > Len(s) THEN <<0, 0>>
    ELSE IntAdd(HashTerm(s[i], Len(s) - i), HashSum(s, i + 1))

\* The docstring's closed form, reduced once at the end.
ClosedForm(s) == LET t == HashSum(s, 1) IN <<t[1] % 65536, t[2]>>

\* C11: for every string, hashcode, which reduces mod 2^32 after every
\* character, returns the docstring's closed form s[0]*31^(n-1) + ... +
\* s[n-1] reduced mod 2^32 once at the end.
C11_HashIsClosedForm ==
    (op = "hashcode" /\ pc = "done") => ret = Some(ClosedForm(HashcodeChars))

C11_Witness ==
    /\ op = "hashcode" /\ pc = "done"
    /\ string = Some(<<1114111, 1114111, 8364, 97>>)
    /\ HashSum(string.v, 1)[1] >= 65536
    /\ ret = Some(<<64035, 32021>>)

ExampleContent ==
    [attrs |-> [stylesheet |-> Some("a{color:red}"), javascript |-> None,
                title |-> Some("Hi"), name |-> None, attributes |-> None,
                home_ajax_out |-> None],
     str |-> "<p>x</p>"]

\* The example content has been streamed to the end, compact, not truncated.
ExampleStreamed ==
    /\ Streaming /\ pc = "done"
    /\ content = ExampleContent /\ fragments = None
    /\ ~truncate /\ ~debug

\* C12 as stated: the chunks of the example stream concatenate to BEGIN, the
\* early object, CRLF, DELIMITER, the late object, CRLF, END (keys of an
\* object in either order).
C12_ConcatenationWithCrlf ==
    ExampleStreamed =>
        Join(out, "") \in
            {"[\r\n" \o e \o "\r\n" \o ",\r\n"
                \o "{\"body\":{\"content\":\"<p>x</p>\"}}" \o "\r\n" \o "]\r\n" :
             e \in {"{\"head\":\"a{color:red}\",\"title\":\"Hi\"}",
                    "{\"title\":\"Hi\",\"head\":\"a{color:red}\"}"}}

\* C12 amended: the chunks of the example stream concatenate to BEGIN, the
\* early object, DELIMITER, the late object, END, with nothing between a
\* JSON part and the framing token after it (keys of an object in either
\* order).
C12_ConcatenationWithoutCrlf ==
    ExampleStreamed =>
        Join(out, "") \in
            {"[\r\n" \o e \o ",\r\n"
                \o "{\"body\":{\"content\":\"<p>x</p>\"}}" \o "]\r\n" :
             e \in {"{\"head\":\"a{color:red}\",\"title\":\"Hi\"}",
                    "{\"title\":\"Hi\",\"head\":\"a{color:red}\"}"}}

C12_Witness ==
    /\ ExampleStreamed
    /\ Len(out) = 5
    /\ Join(out, "") =
         "[\r\n{\"head\":\"a{color:red}\",\"title\":\"Hi\"},\r\n{\"body\":{\"content\":\"<p>x</p>\"}}]\r\n"

\* C13: every body delivered in fragment mode without streaming, the content
\* object of render_spf and the redirect object of redirect alike, goes out
\* with the Content-Type application/javascript header set.
C13_JsonHeaderOnEveryBody ==
    (op \in {"render_spf", "redirect"} /\ pc = "done" /\ ~ret.isNone) =>
        /\ "Content-Type" \in DOMAIN headers
        /\ headers["Content-Type"] = "application/javascript"

\* C14: a stream of chunked_render_spf, truncated or not, has the
\* Content-Type application/javascript header and the X-SPF-Response-Type:
\* multipart header set before BEGIN is yielded; render_spf and redirect
\* never set the multipart header.
C14_MultipartHeaderBeforeBegin ==
    /\ (Streaming /\ Len(out) >= 1) =>
          /\ out[1] = "[\r\n"
          /\ DOMAIN headers = {"Content-Type", "X-SPF-Response-Type"}
          /\ headers["Content-Type"] = "application/javascript"
          /\ headers["X-SPF-Response-Type"] = "multipart"
    /\ op \in {"render_spf", "redirect"} => "X-SPF-Response-Type" \notin DOMAIN headers

C14_Witness ==
    /\ Streaming /\ truncate /\ pc = "yield_begin"
    /\ out = <<"[\r\n">>
    /\ headers = [x \in {"Content-Type", "X-SPF-Response-Type"} |->
                    IF x = "Content-Type" THEN "application/javascript" ELSE "multipart"]

MalformedAttributes ==
    (~content.attrs["attributes"].isNone)
    /\ content.attrs["attributes"].v \notin {"{}", "{\"nav\":{\"class\":\"on\"}}"}

\* C16: when content's attributes string is no JSON, create_spf_response
\* raises and returns no object, and render_spf and chunked_render_spf let
\* the error through: no body is returned, no chunk is yielded, no default
\* is substituted.
C16_MalformedAttributesPropagate ==
    (/\ op \in {"create_spf_response", "render_spf", "chunked_render_spf"}
     /\ pc # "call" /\ MalformedAttributes) =>
        /\ pc = "raised" /\ exc = "ValueError"
        /\ ret = None
        /\ out = <<>>

C16_Witness ==
    /\ op = "render_spf" /\ pc = "raised" /\ exc = "ValueError"
    /\ content.attrs["attributes"] = Some("{nav:")
    /\ content.attrs["title"] = Some("Hi")
    /\ ret = None

\* C17: create_spf_response never raises for a field content lacks: a
\* missing stylesheet, javascript, title, name or attributes, and a
\* fragment_ids entry naming an attribute content does not have, all count
\* as absent and the response is returned.
C17_MissingFieldsNeverRaise ==
    (op = "create_spf_response" /\ pc # "call" /\ ~MalformedAttributes) =>
        /\ pc = "done" /\ exc = "none"
        /\ ~ret.isNone

\* C18: the chunks of chunked_render_spf come into existence one per request
\* of the consumer and in the order of the sequence: a step adds at most one
\* chunk at the end of what was emitted, never more chunks than the consumer
\* has asked for, and once the consumer has stopped asking nothing more is
\* emitted.
C18_AbandonedOnDisconnect ==
    [][GenRunning =>
        /\ IsPrefix(out, out')
        /\ Len(out') <= Len(out) + 1
        /\ Len(out') <= pulls'
        /\ (pc = "closed" => (out' = out /\ pc' = "closed"))]_vars

\* The consumer went away after DELIMITER of a stream that was not to be
\* truncated: the late object was never encoded.
C18_Witness ==
    /\ GenRunning /\ pc = "closed" /\ ~truncate
    /\ pulls = 3 /\ out = ThreeChunks /\ sleepAt = <<>>

\* C19: the generator waits exactly once, after DELIMITER (the third chunk)
\* and before the late object: no wait has happened while fewer than three
\* chunks are out or DELIMITER is the last one, and exactly the one wait
\* after three chunks has happened from the late object on and when the
\* generator has returned.
C19_SingleWaitAfterDelimiter ==
    GenRunning =>
        /\ (pc \in {"call", "yield_begin", "yield_early", "yield_delimiter", "raised"}
                => sleepAt = <<>>)
        /\ (pc \in {"yield_late", "yield_end", "done"} => sleepAt = <<3>>)
        /\ (pc = "closed" => sleepAt = IF Len(out) <= 3 THEN <<>> ELSE <<3>>)

C19_Witness ==
    /\ GenRunning /\ pc = "yield_end" /\ Len(out) = 5 /\ sleepAt = <<3>>
    /\ out[3] = MultipartToken.DELIMITER /\ out[5] = MultipartToken.END

Sampling == op \in SampleOps

\* A chunk count is well formed when it is an integer numeral, a delay when
\* it is a decimal numeral: an optional sign, then digits with at most one
\* point among them.
IntegerNumeral(s) == Unsigned(s) # <<>> /\ AllDigits(Unsigned(s))

DecimalNumeral(s) ==
    LET body == Unsigned(s)
        digits == SelectSeq(body, LAMBDA c : c # ".")
    IN  /\ digits # <<>> /\ AllDigits(digits)
        /\ Len(body) - Len(digits) <= 1

BadChunks == "chunks" \in DOMAIN params /\ ~IntegerNumeral(params.chunks)

BadDelay == "delay" \in DOMAIN params /\ ~DecimalNumeral(params.delay)

\* The chunk count the request gives can be used as it is, or is not given.
UsableChunks ==
    "chunks" \in DOMAIN params =>
        (IntegerNumeral(params.chunks) => ParseInt(params.chunks).v > 0)

\* The delay the request gives can be used as it is, or is not given.
UsableDelay ==
    "delay" \in DOMAIN params =>
        (DecimalNumeral(params.delay) => Sign(params.delay) = 1)

\* C15: a chunks value that is not an integer numeral leaves num_chunks = 1
\* and a delay value that is not a decimal numeral leaves delay_time = 1,
\* each whatever the other parameter is; and when one of them is such a value
\* and the other one is usable, the handler does not raise and what it has
\* emitted when it is done is the whole response.
C15_BadParametersReplaced ==
    (Sampling /\ pc # "call") =>
        /\ (BadChunks => self.num_chunks = 1)
        /\ (BadDelay => self.delay_time = Seconds(1))
        /\ ((BadChunks \/ BadDelay) /\ UsableChunks /\ UsableDelay) =>
                /\ pc # "raised"
                /\ (pc = "done" => Concat(out) = Concat(res))

\* What holds of the values int() and float() refuse: they are replaced by
\* 1, each whatever the other parameter is.
C15_RefusedValuesReplaced ==
    (Sampling /\ pc # "call") =>
        /\ ("chunks" \in DOMAIN params /\ ~ParseInt(params.chunks).ok
                => self.num_chunks = 1)
        /\ ("delay" \in DOMAIN params /\ ~ParseFloat(params.delay).ok
                => self.delay_time = Seconds(1))

RECURSIVE AloneChunks(_, _, _)
AloneChunks(r, length, i) ==
    IF ~InRange(i, Len(r), length) THEN <<>>
    ELSE <<Concat(Slice(r, i, length))>> \o AloneChunks(r, length, i + length)

\* The request, handled alone, ends with an exception.
AloneRaises(q) ==
    IF q.kind \in SampleOps
    THEN LET s == handle_input(q.params)
             r == SampleResponse(q.kind, s, debug)
             length == ChunkLength(Len(r), s.num_chunks)
         IN  \/ length.exc # "none"
             \/ RangeRaises(length.v)
             \/ (InRange(0, Len(r), length.v) /\ SleepRaises(s.delay_time))
    ELSE create_spf_response(q.content, None).exc # "none"

\* The chunks the request emits when it is handled alone.
AloneOut(q) ==
    IF AloneRaises(q) THEN <<>>
    ELSE IF q.kind \in SampleOps
    THEN LET s == handle_input(q.params)
             r == SampleResponse(q.kind, s, debug)
         IN  AloneChunks(r, ChunkLength(Len(r), s.num_chunks).v, 0)
    ELSE LET b == create_spf_response(q.content, None).value
             three == <<MultipartToken.BEGIN, encode_json(SplitEarly(b), debug),
                        MultipartToken.DELIMITER>>
         IN  IF q.truncate THEN three
             ELSE three \o <<encode_json(SplitLate(b), debug), MultipartToken.END>>

\* C20: whatever the interleaving of two requests, what a request has
\* emitted is a prefix of the chunks it emits when handled alone, it ends as
\* it ends alone with exactly those chunks, and the attributes of its handler
\* instance are the ones its own parameters give.
C20_ConcurrentRequestsIndependent ==
    op = "pair" =>
        \A r \in PairIds :
            /\ IsPrefix(reqs[r].out, AloneOut(reqs[r]))
            /\ (reqs[r].pc = "done" =>
                    ~AloneRaises(reqs[r]) /\ reqs[r].out = AloneOut(reqs[r]))
            /\ (reqs[r].pc = "raised" => AloneRaises(reqs[r]))
            /\ (reqs[r].kind \in SampleOps /\ reqs[r].pc # "call" =>
                    inst[InstanceOf(r)] = handle_input(reqs[r].params))

\* Both requests are done; the second read its parameters while the first
\* was between two chunks, and they asked for different numbers of chunks.
C20_Witness ==
    /\ op = "pair"
    /\ reqs[1].kind = "ChunkedSampleMultipart" /\ reqs[2].kind = "ChunkedSampleMultipart"
    /\ reqs[1].pc = "done" /\ reqs[2].pc = "done"
    /\ Len(reqs[1].out) = 2 /\ Len(reqs[2].out) = 7
    /\ inst[1].num_chunks = 2 /\ inst[2].num_chunks = 7
    /\ inst[2].add_parse_error /\ ~inst[1].add_parse_error

Tokens == {MultipartToken.BEGIN, MultipartToken.DELIMITER, MultipartToken.END}

\* C21: render returns the encoded response object when is_spf_request holds
\* of the request and the HTML document otherwise; chunked_render starts a
\* multipart stream (multipart header, BEGIN first) when is_spf_request holds
\* and otherwise yields the HTML document as its only chunk, no token among
\* its chunks and no multipart header, whatever truncate is.
C21_FragmentModeIffSpfRequest ==
    /\ (op = "render" /\ pc = "done") =>
            IF is_spf_request(env, params)
            THEN /\ ret = Some(encode_json(create_spf_response(content, None).value, debug))
                 /\ headers = SetJsonHeaders(EmptyDict)
            ELSE /\ ret = Some(BaseTemplate(content))
                 /\ headers = EmptyDict
    /\ (op = "render" /\ pc = "raised") => is_spf_request(env, params)
    /\ (op = "chunked_render" /\ pc # "call") =>
            IF is_spf_request(env, params)
            THEN /\ HeaderOut.RESPONSE_TYPE \in DOMAIN headers
                 /\ (pc # "raised" => out # <<>> /\ out[1] = MultipartToken.BEGIN)
            ELSE /\ out = <<BaseTemplate(content)>>
                 /\ \A i \in 1..Len(out) : out[i] \notin Tokens
                 /\ HeaderOut.RESPONSE_TYPE \notin DOMAIN headers
                 /\ pc \in {"yield_html", "done", "closed"}

\* A truncating chunked_render of a request that gives the header but not
\* the parameter: the one HTML chunk.
C21_Witness ==
    /\ op = "chunked_render" /\ pc = "done" /\ truncate
    /\ ~is_spf_request(env, params)
    /\ env = [HTTP_X_SPF_REQUEST |-> "1"]
    /\ out = <<"<!DOCTYPE html><html><body><p>x</p></body></html>">>
    /\ headers = EmptyDict

Iterating == op \in IterOps

\* What has been yielded is the consecutive slices of the string, each of
\* chunk_len characters but the last, none of them empty.
ConsecutiveSlices ==
    \A k \in 1..Len(out) :
        /\ out[k] = Concat(Slice(string.v, (k - 1) * chunk_len, chunk_len))
        /\ Len(out[k]) >= 1
        /\ (k - 1) * chunk_len < Len(string.v)

\* C22: for every string and every integer chunk count, _iter_chunks does
\* not raise, what it has yielded is at every moment the consecutive
\* non-empty slices of the string from its start, and when it is done their
\* concatenation is the string.
C22_ChunksPartitionString ==
    (Iterating /\ pc # "call") =>
        /\ pc # "raised"
        /\ ConsecutiveSlices
        /\ (pc = "done" => Concat(out) = Concat(string.v))

\* What holds of a non-empty string and a chunk count of at least one.
C22_PositiveCountPartitions ==
    (Iterating /\ pc # "call" /\ number >= 1 /\ string.v # <<>>) =>
        /\ pc # "raised"
        /\ ConsecutiveSlices
        /\ (pc = "done" => Concat(out) = Concat(string.v))

\* C23: for a non-empty string and number >= 1, _iter_chunks yields exactly
\* number chunks, all of the same size.
C23_ExactlyNumberEqualChunks ==
    (Iterating /\ pc = "done" /\ number >= 1 /\ string.v # <<>>) =>
        /\ Len(out) = number
        /\ \A i, j \in 1..Len(out) : Len(out[i]) = Len(out[j])

\* What holds instead: the chunks are ceil(len / number) characters each but
\* the last, which may be shorter, and there are at most number of them.
C23_AtMostNumberChunks ==
    (Iterating /\ pc = "done" /\ number >= 1 /\ string.v # <<>>) =>
        /\ Len(out) <= number
        /\ Len(out) >= 1
        /\ \A i \in 1..(Len(out) - 1) : Len(out[i]) = chunk_len
        /\ Len(out[Len(out)]) <= chunk_len
        /\ (chunk_len - 1) * number < Len(string.v)
        /\ Len(string.v) <= chunk_len * number

\* The request gives a chunks value that int() accepts, and a delay (if any)
\* that time.sleep accepts.
IntegerChunksGiven ==
    /\ "chunks" \in DOMAIN params /\ ParseInt(params.chunks).ok
    /\ ~SleepRaises(handle_input(params).delay_time)

\* C26: for every chunks value that is an integer (zero, negative and larger
\* than the response included) the chunk loop of the sample handlers does not
\* raise, and when it is done the emitted chunks concatenate to the response
\* string that was built.
C26_EveryIntegerCountCompletes ==
    (Sampling /\ pc # "call" /\ IntegerChunksGiven) =>
        /\ pc # "raised"
        /\ (pc = "done" => Concat(out) = Concat(res))

\* What holds of the positive values, larger than the response included.
C26_PositiveCountCompletes ==
    (Sampling /\ pc # "call" /\ IntegerChunksGiven
       /\ ParseInt(params.chunks).v >= 1) =>
        /\ pc # "raised"
        /\ (pc = "done" => Concat(out) = Concat(res) /\ Len(out) <= self.num_chunks)

SpfRefererGiven ==
    "HTTP_X_SPF_REFERER" \in DOMAIN env /\ env["HTTP_X_SPF_REFERER"] # ""

\* C24: get_referer returns the X-SPF-Referer header when it is present and
\* not empty, whatever the Referer header is, and what the environment has
\* for the Referer header (nothing when it is absent) otherwise; the key
\* cgi_env_var makes of X-SPF-Referer is HTTP_X_SPF_REFERER.
C24_SpfRefererPreferred ==
    (op \in {"get_referer", "GetReferer"} /\ pc = "done") =>
        /\ cgi_env_var(HeaderIn.REFERER) = "HTTP_X_SPF_REFERER"
        /\ IF SpfRefererGiven
           THEN ret = Some(env["HTTP_X_SPF_REFERER"])
           ELSE ret = DictGet(env, "HTTP_REFERER")

\* Both headers are given with different values: the custom one is returned.
C24_Witness ==
    /\ op = "get_referer" /\ pc = "done"
    /\ env = [HTTP_X_SPF_REFERER |-> "/b", HTTP_REFERER |-> "/a"]
    /\ ret = Some("/b")

\* The response chunked_render_spf asks create_spf_response for.
StreamBuild == create_spf_response(content, StreamFragments)

\* C25: chunked_render_spf builds the full response before it emits
\* anything: when create_spf_response raises, the generator has raised at its
\* first resumption and no chunk, not even BEGIN, was emitted; and whenever a
\* chunk has been emitted the response was built and split.
C25_NoChunkWhenBuildFails ==
    (GenRunning /\ pc # "call") =>
        /\ (StreamBuild.exc # "none" =>
                pc = "raised" /\ exc = StreamBuild.exc /\ out = <<>> /\ pulls = 1)
        /\ (out # <<>> =>
                /\ StreamBuild.exc = "none"
                /\ early = SplitEarly(StreamBuild.value)
                /\ resp = SplitLate(StreamBuild.value))

C25_Witness ==
    /\ GenRunning /\ pc = "raised" /\ exc = "ValueError"
    /\ content.attrs["attributes"] = Some("{nav:")
    /\ content.attrs["stylesheet"] = Some("a{color:red}")
    /\ out = <<>> /\ pulls = 1
    /\ HeaderOut.RESPONSE_TYPE \in DOMAIN headers

\* The request sets the flag: the parameter is given and not empty.
Flag(n) == n \in DOMAIN params /\ params[n] # <<>>

\* The JSON object of the letters with codes lo..hi, as one string.
LetterObject(lo, hi) ==
    DumpObject([i \in 1..(hi - lo + 1) |->
                   JsonString(Alphabet[lo + i - 97]) \o KeySep(debug)
                   \o ToString(lo + i - 1)],
               debug, 0)

\* C27: the response string of ChunkedSampleMultipart is BEGIN, the objects
\* of the letters a..h, i..p and q..z each followed by DELIMITER, 'null' and
\* END; add_parse_error puts one '__parse_error__' right before the second
\* object and changes nothing else, no_final_delimiter puts ']' in the place
\* of END and changes nothing else, and no_multipart_header takes away the
\* multipart header and changes nothing of the string or the other header.
C27_SampleMultipartResponse ==
    (op = "ChunkedSampleMultipart" /\ pc # "call") =>
        /\ Concat(res) =
                "[\r\n"
                \o LetterObject(97, 104) \o ",\r\n"
                \o (IF Flag("add_parse_error") THEN "__parse_error__" ELSE "")
                \o LetterObject(105, 112) \o ",\r\n"
                \o LetterObject(113, 122) \o ",\r\n"
                \o "null"
                \o (IF Flag("no_final_delimiter") THEN "]" ELSE "]\r\n")
        /\ headers = IF Flag("no_multipart_header")
                     THEN [x \in {"Content-Type"} |-> "application/javascript"]
                     ELSE [x \in {"Content-Type", "X-SPF-Response-Type"} |->
                            IF x = "Content-Type" THEN "application/javascript"
                            ELSE "multipart"]

\* All three flags are set, compact encoding, one chunk.
C27_Witness ==
    /\ op = "ChunkedSampleMultipart" /\ pc = "done" /\ ~debug
    /\ Flag("add_parse_error") /\ Flag("no_final_delimiter")
    /\ Flag("no_multipart_header")
    /\ "chunks" \notin DOMAIN params
    /\ out = <<"[\r\n"
               \o "{\"a\":97,\"b\":98,\"c\":99,\"d\":100,\"e\":101,\"f\":102,\"g\":103,\"h\":104}"
               \o ",\r\n" \o "__parse_error__"
               \o "{\"i\":105,\"j\":106,\"k\":107,\"l\":108,\"m\":109,\"n\":110,\"o\":111,\"p\":112}"
               \o ",\r\n"
               \o "{\"q\":113,\"r\":114,\"s\":115,\"t\":116,\"u\":117,\"v\":118,\"w\":119,\"x\":120,\"y\":121,\"z\":122}"
               \o ",\r\n" \o "null" \o "]">>
    /\ "X-SPF-Response-Type" \notin DOMAIN headers

\* spf.hashcode of the first n characters of s.
RECURSIVE hashcode_value(_, _)
hashcode_value(s, n) ==
    IF n = 0 THEN <<0, 0>> ELSE hashcode_step(hashcode_value(s, n - 1), s[n])

\* The legacy Hashcode of the first n characters of s.
RECURSIVE Hashcode_value(_, _)
Hashcode_value(s, n) ==
    IF n = 0 THEN <<0, 0>> ELSE Hashcode_step(Hashcode_value(s, n - 1), s[n])

\* C28: for every string that is not None, what spf.hashcode returns is what
\* the legacy Hashcode computes for the string, and what the legacy Hashcode
\* returns is what spf.hashcode computes for it; neither raises.
C28_HashImplementationsAgree ==
    (Hashing /\ ~string.isNone) =>
        /\ pc # "raised"
        /\ (op = "hashcode" /\ pc = "done" =>
                ret = Some(Hashcode_value(string.v, Len(string.v))))
        /\ (op = "Hashcode" /\ pc = "done" =>
                ret = Some(hashcode_value(string.v, Len(string.v))))

C28_Witness ==
    /\ op = "Hashcode" /\ pc = "done"
    /\ string = Some(<<1114111, 1114111, 8364, 97>>)
    /\ ret = Some(<<64035, 32021>>)
    /\ hashcode_value(string.v, 4) = <<64035, 32021>>

====
